---- MODULE Spec2Model ----
(***************************************************************************)
(* Model of the auth-service / email-service pair: the User, RefreshToken, *)
(* Session and out-of-band token tables, the JWT codec, and the request    *)
(* handlers that read and write them.  A request is a process that takes   *)
(* one step per store round-trip (every `await prisma...`), so concurrent  *)
(* requests interleave exactly where the code can be suspended.            *)
(*                                                                         *)
(* Time is the wall clock in seconds.  jsonwebtoken stamps `iat` in whole  *)
(* seconds and signs deterministically, so a token is the tuple of its     *)
(* claims and its `iat`: two tokens signed for the same claims within one  *)
(* second are the same string.                                             *)
(*                                                                         *)
(* The operations are the service functions behind the routes, entered     *)
(* with a well-formed request; the protected routes are entered through    *)
(* the authenticate middleware with a bearer token a client holds.         *)
(***************************************************************************)
EXTENDS Integers, FiniteSets, Sequences, TLC

VARIABLES
    now,            \* wall clock, seconds
    ticks,          \* number of clock advances so far
    cap,            \* number of requests that may be in flight at once
    budget,         \* number of requests the run may start
    nreq,           \* number of requests started so far
    users,          \* User table: id -> row
    nextId,         \* next fresh User id (ids are never reused)
    refreshTokens,  \* RefreshToken table
    sessions,       \* Session table
    magicTokens,    \* MagicLinkToken table
    resetTokens,    \* PasswordResetToken table
    verifTokens,    \* VerificationToken table
    audit,          \* AuditLog table
    reqs,           \* requests in flight: slot -> handler position and locals
    resp,           \* response sent by the step just taken (NoResp otherwise)
    mailbox,        \* mails delivered: the out-of-band token and the address it
                    \* was sent to
    accessIssued,   \* access tokens handed to clients
    refreshIssued,  \* refresh tokens handed to clients
    rotated,        \* history: refresh tokens a successful refresh consumed
    redeemed,       \* history: magic-link, reset and verification tokens a
                    \* successful redeem, reset or verifyEmail consumed
    streak          \* history: run of consecutive wrong-password logins

\* what no handler changes
env == <<now, cap, budget, ticks>>

vars == <<now, ticks, cap, budget, nreq, users, nextId, refreshTokens, sessions, magicTokens,
          resetTokens, verifTokens, audit, reqs, resp, mailbox, accessIssued,
          refreshIssued, rotated, redeemed, streak>>

-----------------------------------------------------------------------------
(* Bounds of the model *)

MaxUsers == 3
MaxTicks == 1
MaxRequests == 3
MaxLoginRequests == 7
MaxConcRequests == 3
MaxResetRequests == 3
MaxAccountRequests == 3
MaxMailRequests == 3
MaxCaseRequests == 3
MaxLockedRequests == 3
MaxVerifyRequests == 4
MaxExpiryRequests == 3
MaxSweepRequests == 2
MaxRoleRequests == 4

UserIds == 1..MaxUsers
SlotIds == {1, 2}
Emails == {"a@x", "b@x"}
Passwords == {"pw1", "pw2"}
Roles == {"USER", "ADMIN"}
Jumps == {1, 1800}
Confirmations == {"ANONYMIZE_MY_DATA", "ANONYMIZE_MY_ACCOUNT"}

-----------------------------------------------------------------------------
(* Program constants *)

MAX_FAILED_ATTEMPTS == 5
LOCK_DURATION_MINUTES == 30
ACCESS_EXPIRES == 900
REFRESH_EXPIRES == 604800
MAGIC_LINK_TOKEN_EXPIRY == 900
RESET_TOKEN_EXPIRY == 3600
VERIFICATION_TOKEN_EXPIRY == 86400
USED_RETENTION_DAYS == 7

NoTime == 0 - 1

-----------------------------------------------------------------------------
(* Rows and tokens *)

NoUser ==
    [id |-> 0, email |-> "", password |-> "", role |-> "USER",
     emailVerified |-> FALSE, failedLoginAttempts |-> 0,
     accountLockedUntil |-> NoTime, tokenVersion |-> 0]

NoTok == [kind |-> "none", userId |-> 0, role |-> "", tokenVersion |-> 0, iat |-> 0]

NoRow == [token |-> NoTok, userId |-> 0, expiresAt |-> NoTime, used |-> FALSE]

\* a signed token is determined by its claims and the second it was signed in
Token(kind, userId, role, tokenVersion, iat) ==
    [kind |-> kind, userId |-> userId, role |-> role,
     tokenVersion |-> tokenVersion, iat |-> iat]

\* jwt.sign(payload, secret, {expiresIn}): the claims plus iat = the current second
Sign(kind, userId, role, tokenVersion) == Token(kind, userId, role, tokenVersion, now)

signAccessToken(userId, role, tokenVersion) == Sign("access", userId, role, tokenVersion)

signRefreshToken(userId, role, tokenVersion) == Sign("refresh", userId, role, tokenVersion)

generateMagicLinkToken(userId) == Sign("magic", userId, "", 0)

generatePasswordResetToken(userId) == Sign("reset", userId, "", 0)

generateVerificationToken(userId) == Sign("verification", userId, "", 0)

getRefreshTokenExpiryDate == now + REFRESH_EXPIRES

getMagicLinkTokenExpiry == now + MAGIC_LINK_TOKEN_EXPIRY

getResetTokenExpiry == now + RESET_TOKEN_EXPIRY

getVerificationTokenExpiry == now + VERIFICATION_TOKEN_EXPIRY

\* jwt.verify(token, ACCESS_SECRET): right secret and exp not reached
verifyAccessToken(t) == t.kind = "access" /\ now < t.iat + ACCESS_EXPIRES

\* authenticate: the bearer token's signature and expiry decide, nothing else
authenticate(t) == IF verifyAccessToken(t) THEN "OK" ELSE "INVALID_TOKEN"

\* requireAdmin: the role claim of the verified token decides
requireAdmin(t) == t.role = "ADMIN"

-----------------------------------------------------------------------------
(* Store lookups *)

findUserByEmail(email) ==
    IF \E i \in DOMAIN users : users[i].email = email
    THEN users[CHOOSE i \in DOMAIN users : users[i].email = email]
    ELSE NoUser

findUserById(id) == IF id \in DOMAIN users THEN users[id] ELSE NoUser

findRefreshToken(t) ==
    IF \E r \in refreshTokens : r.token = t
    THEN CHOOSE r \in refreshTokens : r.token = t
    ELSE NoRow

findMagicLinkToken(t) ==
    IF \E r \in magicTokens : r.token = t
    THEN CHOOSE r \in magicTokens : r.token = t
    ELSE NoRow

findResetToken(t) ==
    IF \E r \in resetTokens : r.token = t
    THEN CHOOSE r \in resetTokens : r.token = t
    ELSE NoRow

findVerificationToken(t) ==
    IF \E r \in verifTokens : r.token = t
    THEN CHOOSE r \in verifTokens : r.token = t
    ELSE NoRow

\* prisma.refreshToken.create: the row to insert
RefreshRow(userId, t) ==
    [token |-> t, userId |-> userId, expiresAt |-> getRefreshTokenExpiryDate, used |-> FALSE]

\* RefreshToken.token is unique; the foreign key on userId was dropped
CanSaveRefreshToken(userId, t) == ~ \E r \in refreshTokens : r.token = t

\* prisma.session.create: the row to insert
SessionRow(userId, t) ==
    [userId |-> userId, refreshToken |-> t, expiresAt |-> getRefreshTokenExpiryDate,
     isActive |-> TRUE]

\* Session.refreshToken is unique and userId is a foreign key
CanCreateSession(userId, t) ==
    /\ userId \in DOMAIN users
    /\ ~ \E s \in sessions : s.refreshToken = t

deleteRefreshToken(t) == {r \in refreshTokens : r.token # t}

\* deactivateSession deactivating every session
deactivateEverySession(t) == {[x EXCEPT !.isActive = FALSE] : x \in sessions}

deactivateSession(t) ==
    {IF s.refreshToken = t THEN [s EXCEPT !.isActive = FALSE] ELSE s : s \in sessions}

AuditRow(userId, action) == [userId |-> userId, action |-> action, anonymized |-> FALSE]

\* createAuditLog: prisma.auditLog.create; AuditLog.userId is a plain column,
\* so the row is written whether or not the user row still exists
createAuditLog(log, userId, action) == log \cup {AuditRow(userId, action)}

\* transporter.sendMail({to, html}): a delivered mail carrying token
Mail(token, to) == [token |-> token, to |-> to]

\* the tokens of a kind that arrived in somebody's inbox
Mailed(kind) == {l.token : l \in {x \in mailbox : x.token.kind = kind}}

-----------------------------------------------------------------------------
(* Requests and responses *)

Idle ==
    [op |-> "idle", pc |-> "", email |-> "", pw |-> "", tok |-> NoTok,
     user |-> NoUser, access |-> NoTok, refresh |-> NoTok, aud |-> <<>>,
     replay |-> FALSE, at |-> 0, bcrypt |-> FALSE, message |-> "", arg |-> "",
     inactive |-> FALSE, lockedUntil |-> NoTime, session |-> NoTok,
     expiresAt |-> NoTime]

NoResp ==
    [op |-> "none", outcome |-> "", email |-> "", tok |-> NoTok, uid |-> 0,
     access |-> NoTok, refresh |-> NoTok, aud |-> <<>>, replay |-> FALSE,
     dup |-> FALSE, bcrypt |-> FALSE, pwOk |-> FALSE, seenFailed |-> 0, prevFailed |-> 0,
     streak |-> 0, gap |-> 0, message |-> "", arg |-> "", inactive |-> FALSE,
     seenVersion |-> 0, lockedUntil |-> NoTime, after |-> 0, session |-> NoTok,
     seenLockedUntil |-> NoTime, at |-> 0, seenVerified |-> FALSE,
     expiresAt |-> NoTime]

\* the response of request r with the given outcome
Reply(r, outcome) ==
    [NoResp EXCEPT !.op = r.op, !.outcome = outcome, !.email = r.email,
                   !.tok = r.tok, !.uid = r.user.id, !.aud = r.aud,
                   !.replay = r.replay, !.bcrypt = r.bcrypt,
                   !.access = r.access, !.refresh = r.refresh,
                   !.message = r.message, !.arg = r.arg, !.inactive = r.inactive,
                   !.lockedUntil = r.lockedUntil, !.session = r.session,
                   !.expiresAt = r.expiresAt, !.at = r.at]

\* a request may start in the lowest free slot, up to cap requests at once
CanStart(s) ==
    /\ nreq < budget
    /\ s <= cap
    /\ reqs[s].op = "idle"
    /\ \A q \in SlotIds : q < s => reqs[q].op # "idle"

NoStreak == [uid |-> 0, n |-> 0, at |-> 0]

\* a request that may write the lockout counters ends a run of wrong-password logins
Interrupt == streak' = NoStreak

-----------------------------------------------------------------------------
(* The clock.  A second may pass between two steps of a request; a longer  *)
(* time passes only between requests.                                      *)

Tick ==
    /\ ticks < MaxTicks
    /\ \E d \in Jumps :
          /\ d > 1 => \A s \in SlotIds : reqs[s].op = "idle"
          /\ now' = now + d
    /\ ticks' = ticks + 1
    /\ resp' = NoResp
    /\ UNCHANGED <<cap, budget, nreq, users, nextId, refreshTokens, sessions,
                   magicTokens, resetTokens, verifTokens, audit, reqs, mailbox,
                   accessIssued, refreshIssued, rotated, redeemed, streak>>

\* a week without requests: long enough for a refresh token to expire
Sleep ==
    /\ now < REFRESH_EXPIRES
    /\ \A s \in SlotIds : reqs[s].op = "idle"
    /\ now' = now + REFRESH_EXPIRES
    /\ resp' = NoResp
    /\ UNCHANGED <<cap, budget, ticks, nreq, users, nextId, refreshTokens, sessions,
                   magicTokens, resetTokens, verifTokens, audit, reqs, mailbox,
                   accessIssued, refreshIssued, rotated, redeemed, streak>>

-----------------------------------------------------------------------------
(* login: loginUser *)

\* the run of consecutive wrong-password logins after login request r has been answered
StreakAfter(r) ==
    IF /\ cap = 1
       /\ r.user.id # 0
       /\ r.pw # r.user.password
       /\ \/ streak.uid = r.user.id /\ streak.n \in 1..5
          \/ r.user.failedLoginAttempts = 0
    THEN [uid |-> r.user.id,
          n |-> IF streak.uid = r.user.id /\ streak.n \in 1..5 THEN streak.n + 1 ELSE 1,
          at |-> now]
    ELSE NoStreak

\* the response to login request r, with the history fields filled in
LoginReply(r, outcome) ==
    [Reply(r, outcome) EXCEPT
        !.pwOk = (r.user.id # 0 /\ r.pw = r.user.password),
        !.streak = StreakAfter(r).n,
        !.after = IF streak.uid = r.user.id THEN streak.n ELSE 0,
        !.gap = r.at - streak.at,
        !.seenFailed = r.user.failedLoginAttempts,
        !.seenLockedUntil = r.user.accountLockedUntil,
        !.at = r.at,
        !.prevFailed = findUserById(r.user.id).failedLoginAttempts]

LoginDone(s, r, outcome) ==
    /\ reqs' = [reqs EXCEPT ![s] = Idle]
    /\ resp' = LoginReply(r, outcome)
    /\ streak' = StreakAfter(r)

\* the lock threshold one attempt late
ShouldLockLate(newAttempts) == newAttempts > MAX_FAILED_ATTEMPTS

\* the account is locked when the failed attempts reach the maximum
ShouldLock(newAttempts) == newAttempts >= MAX_FAILED_ATTEMPTS

\* accountLockedUntil of a fresh lock
LockUntil == now + LOCK_DURATION_MINUTES * 60

\* loginUser without the check of accountLockedUntil
IsLockedNever(u) == FALSE

\* the lock of user row u is still in force
IsLocked(u) == u.accountLockedUntil # NoTime /\ u.accountLockedUntil > now

\* findUserByEmail, then the emailVerified and accountLockedUntil checks
LoginStart(s, email, pw) ==
    /\ CanStart(s)
    /\ nreq' = nreq + 1
    /\ LET user == findUserByEmail(email)
           r == [Idle EXCEPT !.op = "login", !.email = email, !.pw = pw,
                             !.user = user, !.at = now]
       IN  \/ /\ user = NoUser
              /\ LoginDone(s, r, "USER_NOT_FOUND")
              /\ audit' = audit
           \/ /\ user # NoUser /\ ~ user.emailVerified
              /\ LoginDone(s, [r EXCEPT !.aud = <<"LOGIN_FAILED">>], "EMAIL_NOT_VERIFIED")
              /\ audit' = createAuditLog(audit, user.id, "LOGIN_FAILED")
           \/ /\ user # NoUser /\ user.emailVerified /\ IsLocked(user)
              /\ LoginDone(s, [r EXCEPT !.aud = <<"LOGIN_FAILED">>,
                                         !.lockedUntil = user.accountLockedUntil],
                           "ACCOUNT_LOCKED")
              /\ audit' = createAuditLog(audit, user.id, "LOGIN_FAILED")
           \/ /\ user # NoUser /\ user.emailVerified /\ ~ IsLocked(user)
              /\ reqs' = [reqs EXCEPT ![s] =
                    [r EXCEPT !.pc = IF user.accountLockedUntil # NoTime
                                     THEN "unlock" ELSE "compare"]]
              /\ resp' = NoResp
              /\ UNCHANGED <<audit, streak>>
    /\ UNCHANGED <<env, users, nextId, refreshTokens, sessions, magicTokens,
                   resetTokens, verifTokens, mailbox, accessIssued, refreshIssued,
                   rotated, redeemed>>

\* the lock has expired: reset the counter and the lock, log ACCOUNT_UNLOCKED
LoginUnlock(s) ==
    LET r == reqs[s] IN
    /\ r.op = "login" /\ r.pc = "unlock"
    /\ \/ /\ r.user.id \notin DOMAIN users
          /\ LoginDone(s, r, "ERROR")
          /\ UNCHANGED <<users, audit>>
       \/ /\ r.user.id \in DOMAIN users
          /\ users' = [users EXCEPT ![r.user.id].failedLoginAttempts = 0,
                                    ![r.user.id].accountLockedUntil = NoTime]
          /\ audit' = createAuditLog(audit, r.user.id, "ACCOUNT_UNLOCKED")
          /\ reqs' = [reqs EXCEPT ![s] =
                [r EXCEPT !.pc = "compare", !.aud = Append(r.aud, "ACCOUNT_UNLOCKED")]]
          /\ resp' = NoResp
          /\ UNCHANGED streak
    /\ UNCHANGED <<env, nreq, nextId, refreshTokens, sessions, magicTokens,
                   resetTokens, verifTokens, mailbox, accessIssued, refreshIssued,
                   rotated, redeemed>>

\* bcrypt.compare against the hash read at the start, then the counter update
LoginCompare(s) ==
    LET r == [reqs[s] EXCEPT !.bcrypt = TRUE]
        id == r.user.id
        newAttempts == r.user.failedLoginAttempts + 1
    IN
    /\ r.op = "login" /\ r.pc = "compare"
    /\ \/ /\ id \notin DOMAIN users
          /\ LoginDone(s, r, "ERROR")
          /\ UNCHANGED <<users, audit>>
       \/ /\ id \in DOMAIN users
          /\ r.pw # r.user.password
          /\ ShouldLock(newAttempts)
          /\ users' = [users EXCEPT ![id].failedLoginAttempts = newAttempts,
                                    ![id].accountLockedUntil = LockUntil]
          /\ audit' = createAuditLog(audit, id, "ACCOUNT_LOCKED")
          /\ LoginDone(s, [r EXCEPT !.aud = Append(r.aud, "ACCOUNT_LOCKED"),
                                     !.lockedUntil = LockUntil],
                       "ACCOUNT_LOCKED")
       \/ /\ id \in DOMAIN users
          /\ r.pw # r.user.password
          /\ ~ ShouldLock(newAttempts)
          /\ users' = [users EXCEPT ![id].failedLoginAttempts = newAttempts]
          /\ audit' = createAuditLog(audit, id, "LOGIN_FAILED")
          /\ LoginDone(s, [r EXCEPT !.aud = Append(r.aud, "LOGIN_FAILED")],
                       "INVALID_PASSWORD")
       \/ /\ id \in DOMAIN users
          /\ r.pw = r.user.password
          /\ users' = [users EXCEPT ![id].failedLoginAttempts = 0,
                                    ![id].accountLockedUntil = NoTime]
          /\ audit' = createAuditLog(audit, id, "USER_LOGIN")
          /\ reqs' = [reqs EXCEPT ![s] =
                [r EXCEPT !.pc = "save", !.aud = Append(r.aud, "USER_LOGIN")]]
          /\ resp' = NoResp
          /\ UNCHANGED streak
    /\ UNCHANGED <<env, nreq, nextId, refreshTokens, sessions, magicTokens,
                   resetTokens, verifTokens, mailbox, accessIssued, refreshIssued,
                   rotated, redeemed>>

\* sign both tokens from the row read at the start, saveRefreshToken
LoginSave(s) ==
    LET r == reqs[s]
        u == r.user
        accessToken == signAccessToken(u.id, u.role, u.tokenVersion)
        refreshToken == signRefreshToken(u.id, u.role, u.tokenVersion)
    IN
    /\ r.op = "login" /\ r.pc = "save"
    /\ \/ /\ ~ CanSaveRefreshToken(u.id, refreshToken)
          /\ LoginDone(s, r, "ERROR")
          /\ UNCHANGED refreshTokens
       \/ /\ CanSaveRefreshToken(u.id, refreshToken)
          /\ refreshTokens' = refreshTokens \cup {RefreshRow(u.id, refreshToken)}
          /\ reqs' = [reqs EXCEPT ![s] =
                [r EXCEPT !.pc = "session", !.access = accessToken,
                          !.refresh = refreshToken]]
          /\ resp' = NoResp
          /\ UNCHANGED streak
    /\ UNCHANGED <<env, nreq, users, nextId, sessions, magicTokens, resetTokens,
                   verifTokens, audit, mailbox, accessIssued, refreshIssued,
                   rotated, redeemed>>

\* createSession, then the tokens are returned
LoginSession(s) ==
    LET r == reqs[s] IN
    /\ r.op = "login" /\ r.pc = "session"
    /\ \/ /\ ~ CanCreateSession(r.user.id, r.refresh)
          /\ LoginDone(s, [r EXCEPT !.access = NoTok, !.refresh = NoTok], "ERROR")
          /\ UNCHANGED <<sessions, accessIssued, refreshIssued>>
       \/ /\ CanCreateSession(r.user.id, r.refresh)
          /\ sessions' = sessions \cup {SessionRow(r.user.id, r.refresh)}
          /\ accessIssued' = accessIssued \cup {r.access}
          /\ refreshIssued' = refreshIssued \cup {r.refresh}
          /\ LoginDone(s, r, "OK")
    /\ UNCHANGED <<env, nreq, users, nextId, refreshTokens, magicTokens,
                   resetTokens, verifTokens, audit, mailbox, rotated, redeemed>>

\* the login controller answering 423 only for an account it found locked
LoginStatusLockedOnArrival(r) ==
    IF r.outcome = "OK" THEN 200
    ELSE IF r.outcome = "EMAIL_NOT_VERIFIED" THEN 403
    ELSE IF r.lockedUntil # NoTime /\ ~ r.bcrypt THEN 423
    ELSE 401

\* the status of the login controller for login response r: 200, 403 for
\* error.code EMAIL_NOT_VERIFIED, 423 when the error carries lockedUntil, else 401
LoginStatus(r) ==
    IF r.outcome = "OK" THEN 200
    ELSE IF r.outcome = "EMAIL_NOT_VERIFIED" THEN 403
    ELSE IF r.lockedUntil # NoTime THEN 423
    ELSE 401

Login ==
    \/ \E s \in SlotIds, email \in Emails, pw \in Passwords : LoginStart(s, email, pw)
    \/ \E s \in SlotIds : LoginUnlock(s)
    \/ \E s \in SlotIds : LoginCompare(s)
    \/ \E s \in SlotIds : LoginSave(s)
    \/ \E s \in SlotIds : LoginSession(s)

-----------------------------------------------------------------------------
(* refresh: rotateRefreshToken *)

\* a handler other than login answers
Done(s, r, outcome) ==
    /\ reqs' = [reqs EXCEPT ![s] = Idle]
    /\ resp' = Reply(r, outcome)

\* a handler moves on to its next store round-trip
Goto(s, r, pc) ==
    /\ reqs' = [reqs EXCEPT ![s] = [r EXCEPT !.pc = pc]]
    /\ resp' = NoResp

\* an expiry check that never fires
IsExpiredNever(found) == FALSE

\* found.expiresAt < now
IsExpired(found) == found.expiresAt < now

\* findRefreshToken and the expiry check
RefreshStart(s, t) ==
    /\ CanStart(s)
    /\ nreq' = nreq + 1
    /\ LET found == findRefreshToken(t)
           r == [Idle EXCEPT !.op = "refresh", !.tok = t, !.at = now,
                             !.expiresAt = found.expiresAt,
                             !.user = [NoUser EXCEPT !.id = found.userId],
                             !.replay = t \in rotated,
                             !.inactive = \E x \in sessions :
                                              x.refreshToken = t /\ ~ x.isActive]
       IN  \/ /\ found = NoRow
              /\ Done(s, r, "REFRESH_NOT_FOUND")
              /\ UNCHANGED <<refreshTokens, sessions>>
           \/ /\ found # NoRow /\ IsExpired(found)
              /\ refreshTokens' = deleteRefreshToken(t)
              /\ sessions' = deactivateSession(t)
              /\ Done(s, r, "REFRESH_EXPIRED")
           \/ /\ found # NoRow /\ ~ IsExpired(found)
              /\ Goto(s, r, "user")
              /\ UNCHANGED <<refreshTokens, sessions>>
    /\ UNCHANGED <<env, users, nextId, magicTokens, resetTokens, verifTokens, audit,
                   mailbox, accessIssued, refreshIssued, rotated, redeemed, streak>>

\* prisma.user.findUnique: the current role and tokenVersion
RefreshUser(s) ==
    LET r == reqs[s]
        user == findUserById(r.user.id)
    IN
    /\ r.op = "refresh" /\ r.pc = "user"
    /\ \/ /\ user = NoUser
          /\ Done(s, r, "USER_NOT_FOUND")
       \/ /\ user # NoUser
          /\ Goto(s, [r EXCEPT !.user = user], "rotate")
    /\ UNCHANGED <<env, nreq, users, nextId, refreshTokens, sessions, magicTokens,
                   resetTokens, verifTokens, audit, mailbox, accessIssued,
                   refreshIssued, rotated, redeemed, streak>>

\* deleteRefreshToken(oldToken), deactivateSession(oldToken), logTokenRefreshed
RefreshRotate(s) ==
    LET r == reqs[s] IN
    /\ r.op = "refresh" /\ r.pc = "rotate"
    /\ refreshTokens' = deleteRefreshToken(r.tok)
    /\ sessions' = deactivateSession(r.tok)
    /\ audit' = createAuditLog(audit, r.user.id, "TOKEN_REFRESHED")
    /\ Goto(s, [r EXCEPT !.aud = Append(r.aud, "TOKEN_REFRESHED")], "save")
    /\ UNCHANGED <<env, nreq, users, nextId, magicTokens, resetTokens, verifTokens,
                   mailbox, accessIssued, refreshIssued, rotated, redeemed, streak>>

\* the claims of the presented token, copied into the new pair
claimsOfOldToken(oldToken, user) ==
    [role |-> oldToken.role, tokenVersion |-> oldToken.tokenVersion]

\* the role and tokenVersion the new pair is signed with: those of the user row
claimsOfUser(oldToken, user) ==
    [role |-> user.role, tokenVersion |-> user.tokenVersion]

\* sign the new pair, saveRefreshToken, updateSessionActivity(oldToken), answer
RefreshSave(s) ==
    LET r == reqs[s]
        u == r.user
        c == claimsOfUser(r.tok, u)
        newAccessToken == signAccessToken(u.id, c.role, c.tokenVersion)
        newRefreshToken == signRefreshToken(u.id, c.role, c.tokenVersion)
    IN
    /\ r.op = "refresh" /\ r.pc = "save"
    /\ \/ /\ ~ CanSaveRefreshToken(u.id, newRefreshToken)
          /\ Done(s, r, "ERROR")
          /\ UNCHANGED <<refreshTokens, accessIssued, refreshIssued, rotated>>
       \/ /\ CanSaveRefreshToken(u.id, newRefreshToken)
          /\ refreshTokens' = refreshTokens \cup {RefreshRow(u.id, newRefreshToken)}
          /\ accessIssued' = accessIssued \cup {newAccessToken}
          /\ refreshIssued' = refreshIssued \cup {newRefreshToken}
          /\ rotated' = rotated \cup {r.tok}
          /\ reqs' = [reqs EXCEPT ![s] = Idle]
          /\ resp' = [Reply([r EXCEPT !.access = newAccessToken,
                                      !.refresh = newRefreshToken], "OK")
                         EXCEPT !.dup = r.tok \in rotated,
                                !.seenVersion = u.tokenVersion]
    /\ UNCHANGED <<env, nreq, users, nextId, sessions, magicTokens, resetTokens,
                   verifTokens, audit, mailbox, redeemed, streak>>

Refresh ==
    \/ \E s \in SlotIds, t \in refreshIssued : RefreshStart(s, t)
    \/ \E s \in SlotIds : RefreshUser(s)
    \/ \E s \in SlotIds : RefreshRotate(s)
    \/ \E s \in SlotIds : RefreshSave(s)

-----------------------------------------------------------------------------
(* magic link: requestMagicLink, sendMagicLinkEmail, verifyMagicLinkAndLogin *)

\* prisma.magicLinkToken.create: the row to insert
MagicRow(userId, t) ==
    [token |-> t, userId |-> userId, expiresAt |-> getMagicLinkTokenExpiry,
     used |-> FALSE, usedAt |-> NoTime]

\* prisma.user.create of a passwordless signup
MagicUser(id, email) ==
    [NoUser EXCEPT !.id = id, !.email = email, !.password = "random"]

\* the message of requestMagicLink's result
MagicLinkMessage(isNewUser) ==
    IF isNewUser THEN "account created! a magic login link has been sent to your email"
    ELSE "a magic login link has been sent to your email"

\* handleMagicLinkRequest's message when requestMagicLink throws
MagicLinkFailedMessage == "failed to process magic link request"

\* requestMagicLink; mailOk says whether transporter.sendMail succeeds
RequestMagicLink(s, email, mailOk) ==
    /\ CanStart(s)
    /\ nreq' = nreq + 1
    /\ Interrupt
    /\ LET found == findUserByEmail(email)
           isNewUser == found = NoUser
           user == IF isNewUser THEN MagicUser(nextId, email) ELSE found
           created == IF isNewUser THEN (nextId :> user) @@ users ELSE users
           token == generateMagicLinkToken(user.id)
           kept == {m \in magicTokens : ~ (m.userId = user.id /\ ~ m.used)}
           r == [Idle EXCEPT !.op = "magic", !.email = email, !.user = user,
                             !.tok = token, !.at = now, !.replay = isNewUser,
                             !.message = MagicLinkFailedMessage]
           a1 == IF isNewUser THEN {AuditRow(user.id, "USER_REGISTER")} ELSE {}
       IN  /\ isNewUser => nextId <= MaxUsers
           /\ nextId' = IF isNewUser THEN nextId + 1 ELSE nextId
           /\ \/ /\ IsLocked(user)
                 /\ users' = created
                 /\ audit' = audit \cup a1
                 /\ Done(s, r, "ACCOUNT_LOCKED")
                 /\ UNCHANGED <<magicTokens, mailbox>>
              \/ /\ ~ IsLocked(user)
                 /\ users' = [created EXCEPT ![user.id].failedLoginAttempts =
                                  IF user.accountLockedUntil # NoTime THEN 0 ELSE @,
                              ![user.id].accountLockedUntil = NoTime]
                 /\ \/ /\ \E m \in kept : m.token = token
                       /\ magicTokens' = kept
                       /\ audit' = audit \cup a1 \cup {AuditRow(user.id, "MAGIC_LINK_REQUESTED")}
                       /\ Done(s, [r EXCEPT !.aud = <<"MAGIC_LINK_REQUESTED">>], "ERROR")
                       /\ UNCHANGED mailbox
                    \/ /\ ~ \E m \in kept : m.token = token
                       /\ magicTokens' = kept \cup {MagicRow(user.id, token)}
                       /\ \/ /\ mailOk
                             /\ mailbox' = mailbox \cup {Mail(token, email)}
                             /\ audit' = audit \cup a1 \cup
                                   {AuditRow(user.id, "MAGIC_LINK_REQUESTED"),
                                    AuditRow(user.id, "MAGIC_LINK_SENT")}
                             /\ Done(s, [r EXCEPT !.aud = <<"MAGIC_LINK_REQUESTED",
                                                          "MAGIC_LINK_SENT">>,
                                                  !.message = MagicLinkMessage(isNewUser)],
                                     "OK")
                          \/ /\ ~ mailOk
                             /\ audit' = audit \cup a1 \cup
                                   {AuditRow(user.id, "MAGIC_LINK_REQUESTED")}
                             /\ Done(s, [r EXCEPT !.aud = <<"MAGIC_LINK_REQUESTED">>],
                                     "ERROR")
                             /\ UNCHANGED mailbox
    /\ UNCHANGED <<env, refreshTokens, sessions, resetTokens, verifTokens,
                   accessIssued, refreshIssued, rotated, redeemed>>

\* the checks on a magic-link row without the used check
RedeemCheckIgnoringUsed(magicLinkToken, user) ==
    IF magicLinkToken = NoRow THEN "MAGIC_LINK_INVALID"
    ELSE IF magicLinkToken.expiresAt < now THEN "MAGIC_LINK_EXPIRED"
    ELSE IF IsLocked(user) THEN "ACCOUNT_LOCKED"
    ELSE "OK"

\* the checks on a magic-link row without the lock check
RedeemCheckIgnoringLock(magicLinkToken, user) ==
    IF magicLinkToken = NoRow THEN "MAGIC_LINK_INVALID"
    ELSE IF magicLinkToken.used THEN "MAGIC_LINK_USED"
    ELSE IF magicLinkToken.expiresAt < now THEN "MAGIC_LINK_EXPIRED"
    ELSE "OK"

\* the checks verifyMagicLinkAndLogin makes on the row it found, in order
RedeemCheck(magicLinkToken, user) ==
    IF magicLinkToken = NoRow THEN "MAGIC_LINK_INVALID"
    ELSE IF magicLinkToken.used THEN "MAGIC_LINK_USED"
    ELSE IF magicLinkToken.expiresAt < now THEN "MAGIC_LINK_EXPIRED"
    ELSE IF IsLocked(user) THEN "ACCOUNT_LOCKED"
    ELSE "OK"

\* the response to redeem request r, with the user row and the time it read
RedeemReply(r, outcome) ==
    [Reply(r, outcome) EXCEPT !.seenLockedUntil = r.user.accountLockedUntil,
                              !.seenVerified = r.user.emailVerified,
                              !.at = r.at]

RedeemDone(s, r, outcome) ==
    /\ reqs' = [reqs EXCEPT ![s] = Idle]
    /\ resp' = RedeemReply(r, outcome)

\* findUnique with the user, then the used, expiry and lock checks
RedeemStart(s, m) ==
    /\ CanStart(s)
    /\ nreq' = nreq + 1
    /\ Interrupt
    /\ LET magicLinkToken == findMagicLinkToken(m)
           user == findUserById(magicLinkToken.userId)
           check == RedeemCheck(magicLinkToken, user)
           r == [Idle EXCEPT !.op = "redeem", !.tok = m, !.user = user, !.at = now,
                             !.replay = m \in redeemed]
       IN  \/ /\ check \in {"MAGIC_LINK_INVALID", "MAGIC_LINK_USED"}
              /\ RedeemDone(s, r, check)
              /\ UNCHANGED <<magicTokens, audit>>
           \/ /\ check = "MAGIC_LINK_EXPIRED"
              /\ magicTokens' = magicTokens \ {magicLinkToken}
              /\ RedeemDone(s, r, check)
              /\ UNCHANGED audit
           \/ /\ check = "ACCOUNT_LOCKED"
              /\ audit' = createAuditLog(audit, user.id, "MAGIC_LINK_FAILED")
              /\ RedeemDone(s, [r EXCEPT !.aud = <<"MAGIC_LINK_FAILED">>], check)
              /\ UNCHANGED magicTokens
           \/ /\ check = "OK"
              /\ Goto(s, r, "mark")
              /\ UNCHANGED <<magicTokens, audit>>
    /\ UNCHANGED <<env, users, nextId, refreshTokens, sessions, resetTokens,
                   verifTokens, mailbox, accessIssued, refreshIssued, rotated, redeemed>>

\* magicLinkToken.update(used), then user.update(emailVerified, counters)
RedeemMark(s) ==
    LET r == reqs[s]
        row == findMagicLinkToken(r.tok)
    IN
    /\ r.op = "redeem" /\ r.pc = "mark"
    /\ \/ /\ row = NoRow
          /\ RedeemDone(s, r, "ERROR")
          /\ UNCHANGED <<magicTokens, users>>
       \/ /\ row # NoRow
          /\ magicTokens' = (magicTokens \ {row})
                               \cup {[row EXCEPT !.used = TRUE, !.usedAt = now]}
          /\ users' = [users EXCEPT ![r.user.id].failedLoginAttempts = 0,
                                    ![r.user.id].accountLockedUntil = NoTime,
                                    ![r.user.id].emailVerified = TRUE]
          /\ Goto(s, r, "save")
    /\ UNCHANGED <<env, nreq, nextId, refreshTokens, sessions, resetTokens,
                   verifTokens, audit, mailbox, accessIssued, refreshIssued, rotated,
                   redeemed, streak>>

\* sign both tokens from the row read at the start, saveRefreshToken
RedeemSave(s) ==
    LET r == reqs[s]
        u == r.user
        accessToken == signAccessToken(u.id, u.role, u.tokenVersion)
        refreshToken == signRefreshToken(u.id, u.role, u.tokenVersion)
    IN
    /\ r.op = "redeem" /\ r.pc = "save"
    /\ \/ /\ ~ CanSaveRefreshToken(u.id, refreshToken)
          /\ RedeemDone(s, r, "ERROR")
          /\ UNCHANGED refreshTokens
       \/ /\ CanSaveRefreshToken(u.id, refreshToken)
          /\ refreshTokens' = refreshTokens \cup {RefreshRow(u.id, refreshToken)}
          /\ Goto(s, [r EXCEPT !.access = accessToken, !.refresh = refreshToken],
                  "session")
    /\ UNCHANGED <<env, nreq, users, nextId, sessions, magicTokens, resetTokens,
                   verifTokens, audit, mailbox, accessIssued, refreshIssued, rotated,
                   redeemed, streak>>

\* createSession, the MAGIC_LINK_LOGIN audit row, then the tokens are returned
RedeemSession(s) ==
    LET r == reqs[s] IN
    /\ r.op = "redeem" /\ r.pc = "session"
    /\ \/ /\ ~ CanCreateSession(r.user.id, r.refresh)
          /\ RedeemDone(s, [r EXCEPT !.access = NoTok, !.refresh = NoTok], "ERROR")
          /\ UNCHANGED <<sessions, audit, accessIssued, refreshIssued, redeemed>>
       \/ /\ CanCreateSession(r.user.id, r.refresh)
          /\ sessions' = sessions \cup {SessionRow(r.user.id, r.refresh)}
          /\ audit' = createAuditLog(audit, r.user.id, "MAGIC_LINK_LOGIN")
          /\ accessIssued' = accessIssued \cup {r.access}
          /\ refreshIssued' = refreshIssued \cup {r.refresh}
          /\ redeemed' = redeemed \cup {r.tok}
          /\ reqs' = [reqs EXCEPT ![s] = Idle]
          /\ resp' = [RedeemReply([r EXCEPT !.aud = <<"MAGIC_LINK_LOGIN">>], "OK")
                         EXCEPT !.dup = r.tok \in redeemed]
    /\ UNCHANGED <<env, nreq, users, nextId, refreshTokens, magicTokens, resetTokens,
                   verifTokens, mailbox, rotated, streak>>

\* cleanupExpiredMagicLinkTokens: every row past its expiry goes, used or not
CleanupExpiredMagicLinkTokens ==
    /\ \E m \in magicTokens : m.expiresAt < now
    /\ magicTokens' = {m \in magicTokens : ~ (m.expiresAt < now)}
    /\ resp' = NoResp
    /\ UNCHANGED <<env, nreq, users, nextId, refreshTokens, sessions, resetTokens,
                   verifTokens, audit, reqs, mailbox, accessIssued, refreshIssued,
                   rotated, redeemed, streak>>

\* scripts/cleanupMagicLinkTokens.ts: deleteMany of the expired rows, then
\* deleteMany of the rows used more than seven days ago
CleanupMagicLinkTokens ==
    /\ LET expired == {m \in magicTokens : m.expiresAt < now}
           sevenDaysAgo == now - USED_RETENTION_DAYS * 86400
           oldUsed == {m \in magicTokens \ expired : m.used /\ m.usedAt < sevenDaysAgo}
       IN  magicTokens' = (magicTokens \ expired) \ oldUsed
    /\ resp' = [NoResp EXCEPT !.op = "sweep", !.at = now]
    /\ UNCHANGED <<env, nreq, users, nextId, refreshTokens, sessions, resetTokens,
                   verifTokens, audit, reqs, mailbox, accessIssued, refreshIssued,
                   rotated, redeemed, streak>>

MagicLink ==
    \/ \E s \in SlotIds, email \in Emails, mailOk \in BOOLEAN :
          RequestMagicLink(s, email, mailOk)
    \/ \E s \in SlotIds, m \in Mailed("magic") : RedeemStart(s, m)
    \/ \E s \in SlotIds : RedeemMark(s)
    \/ \E s \in SlotIds : RedeemSave(s)
    \/ \E s \in SlotIds : RedeemSession(s)
    \/ CleanupExpiredMagicLinkTokens

-----------------------------------------------------------------------------
(* password reset: sendPasswordResetEmail, resetPassword *)

\* prisma.passwordResetToken.create: the row to insert
ResetRow(userId, t) ==
    [token |-> t, userId |-> userId, expiresAt |-> getResetTokenExpiry, used |-> FALSE]

\* a different answer for an address without an account
ForgotUnknownMessageRevealing == "user not found"

\* sendPasswordResetEmail's result for an address without an account
ForgotUnknownMessage == "if email exists, password reset link has been sent"

\* sendPasswordResetEmail's result after the mail was sent
ForgotSentMessage == "if email exists, password reset link has been sent"

\* handleForgotPassword's message when sendPasswordResetEmail throws
ForgotFailedMessage == "failed to send password reset email"

\* sendPasswordResetEmail; mailOk says whether transporter.sendMail succeeds
SendPasswordResetEmail(s, email, mailOk) ==
    /\ CanStart(s)
    /\ nreq' = nreq + 1
    /\ Interrupt
    /\ LET user == findUserByEmail(email)
           token == generatePasswordResetToken(user.id)
           r == [Idle EXCEPT !.op = "forgot", !.email = email, !.user = user,
                             !.tok = token, !.at = now]
       IN  \/ /\ user = NoUser
              /\ Done(s, [r EXCEPT !.tok = NoTok, !.message = ForgotUnknownMessage], "OK")
              /\ UNCHANGED <<resetTokens, audit, mailbox>>
           \/ /\ user # NoUser
              /\ resetTokens' = {x \in resetTokens : x.userId # user.id}
                                   \cup {ResetRow(user.id, token)}
              /\ audit' = createAuditLog(audit, user.id, "PASSWORD_RESET_REQUESTED")
              /\ \/ /\ mailOk
                    /\ mailbox' = mailbox \cup {Mail(token, email)}
                    /\ Done(s, [r EXCEPT !.aud = <<"PASSWORD_RESET_REQUESTED">>,
                                         !.message = ForgotSentMessage], "OK")
                 \/ /\ ~ mailOk
                    /\ mailbox' = mailbox
                    /\ Done(s, [r EXCEPT !.aud = <<"PASSWORD_RESET_REQUESTED">>,
                                         !.message = ForgotFailedMessage], "ERROR")
    /\ UNCHANGED <<env, users, nextId, refreshTokens, sessions, magicTokens,
                   verifTokens, accessIssued, refreshIssued, rotated, redeemed>>

\* findUnique with the user, then the expiry and used checks
ResetStart(s, t, newPassword) ==
    /\ CanStart(s)
    /\ nreq' = nreq + 1
    /\ Interrupt
    /\ LET resetToken == findResetToken(t)
           r == [Idle EXCEPT !.op = "reset", !.tok = t, !.pw = newPassword, !.at = now,
                             !.user = findUserById(resetToken.userId)]
       IN  \/ /\ resetToken = NoRow
              /\ Done(s, r, "RESET_INVALID")
              /\ UNCHANGED resetTokens
           \/ /\ resetToken # NoRow /\ resetToken.expiresAt < now
              /\ resetTokens' = resetTokens \ {resetToken}
              /\ Done(s, r, "RESET_EXPIRED")
           \/ /\ resetToken # NoRow /\ ~ (resetToken.expiresAt < now)
              /\ resetToken.used
              /\ Done(s, r, "RESET_USED")
              /\ UNCHANGED resetTokens
           \/ /\ resetToken # NoRow /\ ~ (resetToken.expiresAt < now)
              /\ ~ resetToken.used
              /\ Goto(s, r, "bump")
              /\ UNCHANGED resetTokens
    /\ UNCHANGED <<env, users, nextId, refreshTokens, sessions, magicTokens,
                   verifTokens, audit, mailbox, accessIssued, refreshIssued, rotated,
                   redeemed>>

\* resetPassword's user.update, decrementing the tokenVersion
ResetUserDecrementing(u, newPassword) ==
    [u EXCEPT !.password = newPassword, !.failedLoginAttempts = 0,
              !.accountLockedUntil = NoTime, !.tokenVersion = @ - 1]

\* the user row after resetPassword's user.update
ResetUser(u, newPassword) ==
    [u EXCEPT !.password = newPassword, !.failedLoginAttempts = 0,
              !.accountLockedUntil = NoTime, !.tokenVersion = @ + 1]

\* user.update: new hash, counters cleared, tokenVersion incremented
ResetBump(s) ==
    LET r == reqs[s]
        id == r.user.id
    IN
    /\ r.op = "reset" /\ r.pc = "bump"
    /\ \/ /\ id \notin DOMAIN users
          /\ Done(s, r, "ERROR")
          /\ UNCHANGED users
       \/ /\ id \in DOMAIN users
          /\ users' = [users EXCEPT ![id] = ResetUser(@, r.pw)]
          /\ Goto(s, r, "mark")
    /\ UNCHANGED <<env, nreq, nextId, refreshTokens, sessions, magicTokens,
                   resetTokens, verifTokens, audit, mailbox, accessIssued,
                   refreshIssued, rotated, redeemed, streak>>

\* passwordResetToken.update: used = true
ResetMark(s) ==
    LET r == reqs[s]
        row == findResetToken(r.tok)
    IN
    /\ r.op = "reset" /\ r.pc = "mark"
    /\ \/ /\ row = NoRow
          /\ Done(s, r, "ERROR")
          /\ UNCHANGED resetTokens
       \/ /\ row # NoRow
          /\ resetTokens' = (resetTokens \ {row}) \cup {[row EXCEPT !.used = TRUE]}
          /\ Goto(s, r, "wipe")
    /\ UNCHANGED <<env, nreq, users, nextId, refreshTokens, sessions, magicTokens,
                   verifTokens, audit, mailbox, accessIssued, refreshIssued, rotated,
                   redeemed, streak>>

\* refreshToken.deleteMany, session.updateMany(isActive: false), the audit row
ResetWipe(s) ==
    LET r == reqs[s]
        id == r.user.id
    IN
    /\ r.op = "reset" /\ r.pc = "wipe"
    /\ refreshTokens' = {x \in refreshTokens : x.userId # id}
    /\ sessions' = {IF x.userId = id THEN [x EXCEPT !.isActive = FALSE] ELSE x :
                       x \in sessions}
    /\ audit' = createAuditLog(audit, id, "PASSWORD_RESET_COMPLETED")
    /\ redeemed' = redeemed \cup {r.tok}
    /\ reqs' = [reqs EXCEPT ![s] = Idle]
    /\ resp' = [Reply([r EXCEPT !.aud = <<"PASSWORD_RESET_COMPLETED">>], "OK")
                   EXCEPT !.dup = r.tok \in redeemed,
                          !.seenVersion = r.user.tokenVersion]
    /\ UNCHANGED <<env, nreq, users, nextId, magicTokens, resetTokens, verifTokens,
                   mailbox, accessIssued, refreshIssued, rotated, streak>>

PasswordReset ==
    \/ \E s \in SlotIds, email \in Emails, mailOk \in BOOLEAN :
          SendPasswordResetEmail(s, email, mailOk)
    \/ \E s \in SlotIds, t \in Mailed("reset"),
          newPassword \in Passwords : ResetStart(s, t, newPassword)
    \/ \E s \in SlotIds : ResetBump(s)
    \/ \E s \in SlotIds : ResetMark(s)
    \/ \E s \in SlotIds : ResetWipe(s)

-----------------------------------------------------------------------------
(* protected routes: authenticate, then the controller *)

\* GET /profile with bearer token t
GetProfile(s, t) ==
    /\ CanStart(s)
    /\ nreq' = nreq + 1
    /\ Interrupt
    /\ LET r == [Idle EXCEPT !.op = "profile", !.tok = t, !.at = now,
                             !.user = [NoUser EXCEPT !.id = t.userId]]
       IN  \/ /\ authenticate(t) # "OK"
              /\ Done(s, r, authenticate(t))
           \/ /\ authenticate(t) = "OK"
              /\ findUserById(t.userId) = NoUser
              /\ Done(s, r, "USER_NOT_FOUND")
           \/ /\ authenticate(t) = "OK"
              /\ findUserById(t.userId) # NoUser
              /\ Done(s, r, "OK")
    /\ UNCHANGED <<env, users, nextId, refreshTokens, sessions, magicTokens,
                   resetTokens, verifTokens, audit, mailbox, accessIssued,
                   refreshIssued, rotated, redeemed>>

\* PATCH /admin/change-role with bearer token t: requireAdmin, changeUserRole, updateUserRole
ChangeUserRole(s, t, userId, role) ==
    /\ CanStart(s)
    /\ nreq' = nreq + 1
    /\ Interrupt
    /\ LET r == [Idle EXCEPT !.op = "role", !.tok = t, !.at = now,
                             !.user = [NoUser EXCEPT !.id = userId]]
       IN  \/ /\ authenticate(t) # "OK"
              /\ Done(s, r, authenticate(t))
              /\ UNCHANGED <<users, audit>>
           \/ /\ authenticate(t) = "OK" /\ ~ requireAdmin(t)
              /\ Done(s, r, "FORBIDDEN")
              /\ UNCHANGED <<users, audit>>
           \/ /\ authenticate(t) = "OK" /\ requireAdmin(t)
              /\ t.userId = userId
              /\ Done(s, r, "OWN_ROLE")
              /\ UNCHANGED <<users, audit>>
           \/ /\ authenticate(t) = "OK" /\ requireAdmin(t)
              /\ t.userId # userId
              /\ userId \notin DOMAIN users
              /\ Done(s, r, "ERROR")
              /\ UNCHANGED <<users, audit>>
           \/ /\ authenticate(t) = "OK" /\ requireAdmin(t)
              /\ t.userId # userId
              /\ userId \in DOMAIN users
              /\ users' = [users EXCEPT ![userId].role = role]
              /\ audit' = createAuditLog(audit, userId, "ROLE_CHANGED")
              /\ Done(s, [r EXCEPT !.aud = <<"ROLE_CHANGED">>], "OK")
    /\ UNCHANGED <<env, nextId, refreshTokens, sessions, magicTokens, resetTokens,
                   verifTokens, mailbox, accessIssued, refreshIssued, rotated, redeemed>>

-----------------------------------------------------------------------------
(* registration and e-mail verification *)

\* prisma.verificationToken.create: the row to insert
VerificationRow(userId, t) ==
    [token |-> t, userId |-> userId, expiresAt |-> getVerificationTokenExpiry,
     used |-> FALSE]

\* prisma.user.create of registerUser
NewUser(id, email, password, role) ==
    [NoUser EXCEPT !.id = id, !.email = email, !.password = password, !.role = role,
                   !.emailVerified = FALSE, !.tokenVersion = 0]

\* signUp, registerUser, sendVerificationEmail
RegisterUser(s, email, password, role, mailOk) ==
    /\ CanStart(s)
    /\ nreq' = nreq + 1
    /\ Interrupt
    /\ LET token == generateVerificationToken(nextId)
           r == [Idle EXCEPT !.op = "register", !.email = email, !.pw = password,
                             !.at = now]
       IN  \/ /\ findUserByEmail(email) # NoUser
              /\ Done(s, r, "USER_EXISTS")
              /\ UNCHANGED <<users, nextId, verifTokens, audit, mailbox>>
           \/ /\ findUserByEmail(email) = NoUser
              /\ nextId <= MaxUsers
              /\ users' = (nextId :> NewUser(nextId, email, password, role)) @@ users
              /\ nextId' = nextId + 1
              /\ audit' = audit \cup {AuditRow(nextId, "USER_REGISTER")}
              /\ verifTokens' = verifTokens \cup {VerificationRow(nextId, token)}
              /\ mailbox' = IF mailOk THEN mailbox \cup {Mail(token, email)} ELSE mailbox
              /\ Done(s, [r EXCEPT !.user = NewUser(nextId, email, password, role),
                                   !.tok = token, !.aud = <<"USER_REGISTER">>], "OK")
    /\ UNCHANGED <<env, refreshTokens, sessions, magicTokens, resetTokens,
                   accessIssued, refreshIssued, rotated, redeemed>>

\* verifyEmail
VerifyEmail(s, t) ==
    /\ CanStart(s)
    /\ nreq' = nreq + 1
    /\ Interrupt
    /\ LET verificationToken == findVerificationToken(t)
           user == findUserById(verificationToken.userId)
           r == [Idle EXCEPT !.op = "verify", !.tok = t, !.user = user, !.at = now,
                             !.replay = t \in redeemed]
       IN  \/ /\ verificationToken = NoRow
              /\ Done(s, r, "VERIFICATION_INVALID")
              /\ UNCHANGED <<users, verifTokens, redeemed>>
           \/ /\ verificationToken # NoRow /\ verificationToken.expiresAt < now
              /\ verifTokens' = verifTokens \ {verificationToken}
              /\ Done(s, r, "VERIFICATION_EXPIRED")
              /\ UNCHANGED <<users, redeemed>>
           \/ /\ verificationToken # NoRow /\ ~ (verificationToken.expiresAt < now)
              /\ user.emailVerified
              /\ Done(s, r, "ALREADY_VERIFIED")
              /\ UNCHANGED <<users, verifTokens, redeemed>>
           \/ /\ verificationToken # NoRow /\ ~ (verificationToken.expiresAt < now)
              /\ ~ user.emailVerified
              /\ users' = [users EXCEPT ![user.id].emailVerified = TRUE]
              /\ verifTokens' = verifTokens \ {verificationToken}
              /\ redeemed' = redeemed \cup {t}
              /\ Done(s, r, "OK")
    /\ UNCHANGED <<env, nextId, refreshTokens, sessions, magicTokens, resetTokens,
                   audit, mailbox, accessIssued, refreshIssued, rotated>>

\* POST /email/send-verification: handleSendVerification, sendVerificationEmail;
\* mailOk says whether transporter.sendMail succeeds
SendVerificationEmail(s, userId, email, mailOk) ==
    /\ CanStart(s)
    /\ nreq' = nreq + 1
    /\ Interrupt
    /\ LET token == generateVerificationToken(userId)
           r == [Idle EXCEPT !.op = "sendVerification", !.tok = token, !.at = now,
                             !.user = findUserById(userId)]
       IN  \/ /\ findVerificationToken(token) # NoRow
              /\ Done(s, r, "ERROR")
              /\ UNCHANGED <<verifTokens, mailbox>>
           \/ /\ findVerificationToken(token) = NoRow
              /\ verifTokens' = verifTokens \cup {VerificationRow(userId, token)}
              /\ \/ /\ mailOk
                    /\ mailbox' = mailbox \cup {Mail(token, email)}
                    /\ Done(s, r, "OK")
                 \/ /\ ~ mailOk
                    /\ mailbox' = mailbox
                    /\ Done(s, r, "ERROR")
    /\ UNCHANGED <<env, users, nextId, refreshTokens, sessions, magicTokens, resetTokens,
                   audit, accessIssued, refreshIssued, rotated, redeemed>>

\* POST /email/resend-verification: handleResendVerification,
\* resendVerificationEmail, sendVerificationEmail
ResendVerificationEmail(s, email, mailOk) ==
    /\ CanStart(s)
    /\ nreq' = nreq + 1
    /\ Interrupt
    /\ LET user == findUserByEmail(email)
           token == generateVerificationToken(user.id)
           r == [Idle EXCEPT !.op = "resendVerification", !.email = email, !.tok = token,
                             !.at = now, !.user = user]
       IN  \/ /\ user = NoUser
              /\ Done(s, [r EXCEPT !.tok = NoTok], "USER_NOT_FOUND")
              /\ UNCHANGED <<verifTokens, mailbox>>
           \/ /\ user # NoUser /\ user.emailVerified
              /\ Done(s, [r EXCEPT !.tok = NoTok], "ALREADY_VERIFIED")
              /\ UNCHANGED <<verifTokens, mailbox>>
           \/ /\ user # NoUser /\ ~ user.emailVerified
              /\ verifTokens' = {x \in verifTokens : x.userId # user.id}
                                   \cup {VerificationRow(user.id, token)}
              /\ \/ /\ mailOk
                    /\ mailbox' = mailbox \cup {Mail(token, email)}
                    /\ Done(s, r, "OK")
                 \/ /\ ~ mailOk
                    /\ mailbox' = mailbox
                    /\ Done(s, r, "ERROR")
    /\ UNCHANGED <<env, users, nextId, refreshTokens, sessions, magicTokens, resetTokens,
                   audit, accessIssued, refreshIssued, rotated, redeemed>>

Verification ==
    \/ \E s \in SlotIds, userId \in DOMAIN users, email \in Emails,
          mailOk \in BOOLEAN : SendVerificationEmail(s, userId, email, mailOk)
    \/ \E s \in SlotIds, email \in Emails, mailOk \in BOOLEAN :
          ResendVerificationEmail(s, email, mailOk)

Registration ==
    \/ \E s \in SlotIds, email \in Emails, password \in Passwords, role \in Roles,
          mailOk \in BOOLEAN : RegisterUser(s, email, password, role, mailOk)
    \/ \E s \in SlotIds, t \in Mailed("verification") :
          VerifyEmail(s, t)

-----------------------------------------------------------------------------
(* GDPR: handleAccountAnonymization, anonymizeUserData, updateUserEmail *)

AnonymizedEmails ==
    <<"anonymized_1@deleted.local", "anonymized_2@deleted.local",
      "anonymized_3@deleted.local", "anonymized_4@deleted.local",
      "anonymized_5@deleted.local", "anonymized_6@deleted.local">>

\* the user row after anonymizeUserData's user.update
AnonymizedUser(u) ==
    [u EXCEPT !.email = AnonymizedEmails[u.id], !.password = "anonymized",
              !.emailVerified = FALSE, !.failedLoginAttempts = 0,
              !.accountLockedUntil = NoTime]

\* anonymizationSchema: z.literal on the confirmation field
anonymizationSchema(confirmation) == confirmation = "ANONYMIZE_MY_DATA"

\* POST /gdpr/anonymize with bearer token t: authenticate, validate(anonymizationSchema),
\* handleAccountAnonymization, anonymizeUserData
HandleAccountAnonymization(s, t, confirmation) ==
    /\ CanStart(s)
    /\ nreq' = nreq + 1
    /\ Interrupt
    /\ LET id == t.userId
           r == [Idle EXCEPT !.op = "anonymize", !.tok = t, !.at = now,
                             !.user = findUserById(id), !.arg = confirmation]
       IN  \/ /\ authenticate(t) # "OK"
              /\ Done(s, r, authenticate(t))
              /\ UNCHANGED <<users, refreshTokens, sessions, magicTokens, resetTokens,
                             verifTokens, audit>>
           \/ /\ authenticate(t) = "OK"
              /\ ~ anonymizationSchema(confirmation)
              /\ Done(s, r, "VALIDATION_ERROR")
              /\ UNCHANGED <<users, refreshTokens, sessions, magicTokens, resetTokens,
                             verifTokens, audit>>
           \/ /\ authenticate(t) = "OK"
              /\ anonymizationSchema(confirmation)
              /\ confirmation # "ANONYMIZE_MY_ACCOUNT"
              /\ Done(s, r, "CONFIRMATION_REQUIRED")
              /\ UNCHANGED <<users, refreshTokens, sessions, magicTokens, resetTokens,
                             verifTokens, audit>>
           \/ /\ authenticate(t) = "OK"
              /\ anonymizationSchema(confirmation)
              /\ confirmation = "ANONYMIZE_MY_ACCOUNT"
              /\ id \notin DOMAIN users
              /\ Done(s, r, "ERROR")
              /\ UNCHANGED <<users, refreshTokens, sessions, magicTokens, resetTokens,
                             verifTokens, audit>>
           \/ /\ authenticate(t) = "OK"
              /\ anonymizationSchema(confirmation)
              /\ confirmation = "ANONYMIZE_MY_ACCOUNT"
              /\ id \in DOMAIN users
              /\ audit' = {IF a.userId = id THEN [a EXCEPT !.anonymized = TRUE] ELSE a :
                              a \in audit \cup {AuditRow(id, "USER_DATA_ANONYMIZED")}}
              /\ sessions' = {x \in sessions : x.userId # id}
              /\ refreshTokens' = {x \in refreshTokens : x.userId # id}
              /\ verifTokens' = {x \in verifTokens : x.userId # id}
              /\ resetTokens' = {x \in resetTokens : x.userId # id}
              /\ magicTokens' = {x \in magicTokens : x.userId # id}
              /\ users' = [users EXCEPT ![id] = AnonymizedUser(@)]
              /\ Done(s, [r EXCEPT !.aud = <<"USER_DATA_ANONYMIZED">>], "OK")
    /\ UNCHANGED <<env, nextId, mailbox, accessIssued, refreshIssued, rotated, redeemed>>

\* updateUserEmail for the caller authenticated by bearer token t
UpdateUserEmail(s, t, newEmail, mailOk) ==
    /\ CanStart(s)
    /\ nreq' = nreq + 1
    /\ Interrupt
    /\ LET id == t.userId
           existingUser == findUserByEmail(newEmail)
           token == generateVerificationToken(id)
           r == [Idle EXCEPT !.op = "email", !.tok = t, !.email = newEmail, !.at = now,
                             !.user = findUserById(id)]
       IN  \/ /\ authenticate(t) # "OK"
              /\ Done(s, r, authenticate(t))
              /\ UNCHANGED <<users, verifTokens, audit, mailbox>>
           \/ /\ authenticate(t) = "OK"
              /\ existingUser # NoUser /\ existingUser.id # id
              /\ Done(s, r, "EMAIL_IN_USE")
              /\ UNCHANGED <<users, verifTokens, audit, mailbox>>
           \/ /\ authenticate(t) = "OK"
              /\ ~ (existingUser # NoUser /\ existingUser.id # id)
              /\ id \notin DOMAIN users
              /\ Done(s, r, "USER_NOT_FOUND")
              /\ UNCHANGED <<users, verifTokens, audit, mailbox>>
           \/ /\ authenticate(t) = "OK"
              /\ ~ (existingUser # NoUser /\ existingUser.id # id)
              /\ id \in DOMAIN users
              /\ users' = [users EXCEPT ![id].email = newEmail,
                                        ![id].emailVerified = FALSE]
              /\ audit' = createAuditLog(audit, id, "EMAIL_UPDATED")
              /\ verifTokens' = {x \in verifTokens : x.userId # id}
                                   \cup {VerificationRow(id, token)}
              /\ \/ /\ mailOk
                    /\ mailbox' = mailbox \cup {Mail(token, newEmail)}
                    /\ Done(s, [r EXCEPT !.aud = <<"EMAIL_UPDATED">>], "OK")
                 \/ /\ ~ mailOk
                    /\ mailbox' = mailbox
                    /\ Done(s, [r EXCEPT !.aud = <<"EMAIL_UPDATED">>], "ERROR")
    /\ UNCHANGED <<env, nextId, refreshTokens, sessions, magicTokens, resetTokens,
                   accessIssued, refreshIssued, rotated, redeemed>>

Account ==
    \/ \E s \in SlotIds, t \in accessIssued : GetProfile(s, t)
    \/ \E s \in SlotIds, t \in accessIssued, userId \in UserIds, role \in Roles :
          ChangeUserRole(s, t, userId, role)
    \/ \E s \in SlotIds, t \in accessIssued, confirmation \in Confirmations :
          HandleAccountAnonymization(s, t, confirmation)
    \/ \E s \in SlotIds, t \in accessIssued, newEmail \in Emails, mailOk \in BOOLEAN :
          UpdateUserEmail(s, t, newEmail, mailOk)


-----------------------------------------------------------------------------
(* logout: logout, logoutUser, logoutAllDevices, revokeAllSessions *)

\* a string that was never issued as a token
ForgedToken == Token("forged", 0, "", 0, 0)

\* POST /logout with the refresh cookie t, NoTok when the request carries none
Logout(s, t) ==
    /\ CanStart(s)
    /\ nreq' = nreq + 1
    /\ Interrupt
    /\ LET r == [Idle EXCEPT !.op = "logout", !.tok = t, !.at = now,
                             !.replay = /\ resp.op = "logout" /\ resp.outcome = "OK"
                                        /\ resp.tok = t,
                             !.message = "logged out successfully"]
       IN  \/ /\ t = NoTok
              /\ Done(s, r, "OK")
              /\ UNCHANGED <<refreshTokens, sessions>>
           \/ /\ t # NoTok
              /\ refreshTokens' = deleteRefreshToken(t)
              /\ sessions' = deactivateSession(t)
              /\ Done(s, r, "OK")
    /\ UNCHANGED <<env, users, nextId, magicTokens, resetTokens, verifTokens, audit,
                   mailbox, accessIssued, refreshIssued, rotated, redeemed>>

\* POST /sessions/logout-all-devices with bearer token t: revokeAllSessions,
\* logLogoutAllDevices
LogoutAllDevices(s, t) ==
    /\ CanStart(s)
    /\ nreq' = nreq + 1
    /\ Interrupt
    /\ LET id == t.userId
           r == [Idle EXCEPT !.op = "logoutAll", !.tok = t, !.at = now,
                             !.user = [NoUser EXCEPT !.id = id]]
       IN  \/ /\ authenticate(t) # "OK"
              /\ Done(s, r, authenticate(t))
              /\ UNCHANGED <<refreshTokens, sessions, audit>>
           \/ /\ authenticate(t) = "OK"
              /\ refreshTokens' = {x \in refreshTokens : x.userId # id}
              /\ sessions' = {IF x.userId = id THEN [x EXCEPT !.isActive = FALSE] ELSE x :
                                 x \in sessions}
              /\ audit' = createAuditLog(audit, id, "USER_LOGOUT_ALL_DEVICES")
              /\ Done(s, [r EXCEPT !.aud = <<"USER_LOGOUT_ALL_DEVICES">>], "OK")
    /\ UNCHANGED <<env, users, nextId, magicTokens, resetTokens, verifTokens,
                   mailbox, accessIssued, refreshIssued, rotated, redeemed>>

\* a Session row is identified by its unique refreshToken, which stands for its id
SessionIds == {x.refreshToken : x \in sessions}

\* session.findFirst by id alone
findSessionOfAnyUser(sessionId, userId) ==
    IF \E x \in sessions : x.refreshToken = sessionId
    THEN CHOOSE x \in sessions : x.refreshToken = sessionId
    ELSE NoRow

\* revokeSession: session.findFirst({where: {id: sessionId, userId}})
findSession(sessionId, userId) ==
    IF \E x \in sessions : x.refreshToken = sessionId /\ x.userId = userId
    THEN CHOOSE x \in sessions : x.refreshToken = sessionId /\ x.userId = userId
    ELSE NoRow

\* DELETE /sessions/:sessionId with bearer token t: revokeSpecificSession,
\* revokeSession, logSessionRevoked
RevokeSpecificSession(s, t, sessionId) ==
    /\ CanStart(s)
    /\ nreq' = nreq + 1
    /\ Interrupt
    /\ LET id == t.userId
           session == findSession(sessionId, id)
           r == [Idle EXCEPT !.op = "revoke", !.tok = t, !.at = now,
                             !.user = [NoUser EXCEPT !.id = id],
                             !.session = sessionId]
       IN  \/ /\ authenticate(t) # "OK"
              /\ Done(s, r, authenticate(t))
              /\ UNCHANGED <<refreshTokens, sessions, audit>>
           \/ /\ authenticate(t) = "OK"
              /\ session = NoRow
              /\ Done(s, r, "SESSION_NOT_FOUND")
              /\ UNCHANGED <<refreshTokens, sessions, audit>>
           \/ /\ authenticate(t) = "OK"
              /\ session # NoRow
              /\ refreshTokens' = {x \in refreshTokens : x.token # session.refreshToken}
              /\ sessions' = (sessions \ {session})
                                 \cup {[session EXCEPT !.isActive = FALSE]}
              /\ audit' = createAuditLog(audit, id, "SESSION_REVOKED")
              /\ Done(s, [r EXCEPT !.aud = <<"SESSION_REVOKED">>], "OK")
    /\ UNCHANGED <<env, users, nextId, magicTokens, resetTokens, verifTokens,
                   mailbox, accessIssued, refreshIssued, rotated, redeemed>>

SignOut ==
    \/ \E s \in SlotIds, t \in refreshIssued \cup {NoTok, ForgedToken} : Logout(s, t)
    \/ \E s \in SlotIds, t \in accessIssued, sessionId \in SessionIds \cup {ForgedToken} :
          RevokeSpecificSession(s, t, sessionId)
    \/ \E s \in SlotIds, t \in accessIssued : LogoutAllDevices(s, t)

-----------------------------------------------------------------------------
(* deletion: deleteUser, deleteUserById, handlePermanentDeletion,            *)
(* permanentlyDeleteUser                                                     *)

\* the User table without user id
WithoutUser(id) == [i \in DOMAIN users \ {id} |-> users[i]]

\* prisma.user.delete: the user row goes and the delete cascades to the rows
\* that belong to the user
DeleteCascade(id) ==
    /\ users' = WithoutUser(id)
    /\ refreshTokens' = {x \in refreshTokens : x.userId # id}
    /\ sessions' = {x \in sessions : x.userId # id}
    /\ magicTokens' = {x \in magicTokens : x.userId # id}
    /\ resetTokens' = {x \in resetTokens : x.userId # id}
    /\ verifTokens' = {x \in verifTokens : x.userId # id}

\* DELETE /admin/user/:id with bearer token t: requireAdmin, deleteUser, deleteUserById
DeleteUser(s, t, userId) ==
    /\ CanStart(s)
    /\ nreq' = nreq + 1
    /\ Interrupt
    /\ LET r == [Idle EXCEPT !.op = "delete", !.tok = t, !.at = now,
                             !.user = [NoUser EXCEPT !.id = userId]]
       IN  \/ /\ authenticate(t) # "OK"
              /\ Done(s, r, authenticate(t))
              /\ UNCHANGED <<users, refreshTokens, sessions, magicTokens, resetTokens,
                             verifTokens, audit>>
           \/ /\ authenticate(t) = "OK" /\ ~ requireAdmin(t)
              /\ Done(s, r, "FORBIDDEN")
              /\ UNCHANGED <<users, refreshTokens, sessions, magicTokens, resetTokens,
                             verifTokens, audit>>
           \/ /\ authenticate(t) = "OK" /\ requireAdmin(t)
              /\ t.userId = userId
              /\ Done(s, r, "OWN_ACCOUNT")
              /\ UNCHANGED <<users, refreshTokens, sessions, magicTokens, resetTokens,
                             verifTokens, audit>>
           \/ /\ authenticate(t) = "OK" /\ requireAdmin(t)
              /\ t.userId # userId
              /\ userId \notin DOMAIN users
              /\ Done(s, r, "ERROR")
              /\ UNCHANGED <<users, refreshTokens, sessions, magicTokens, resetTokens,
                             verifTokens, audit>>
           \/ /\ authenticate(t) = "OK" /\ requireAdmin(t)
              /\ t.userId # userId
              /\ userId \in DOMAIN users
              /\ DeleteCascade(userId)
              /\ audit' = createAuditLog(audit, userId, "USER_DELETED")
              /\ Done(s, [r EXCEPT !.aud = <<"USER_DELETED">>], "OK")
    /\ UNCHANGED <<env, nextId, mailbox, accessIssued, refreshIssued, rotated, redeemed>>

\* permanentDeletionSchema: z.literal on the confirmation field
permanentDeletionSchema(confirmation) == confirmation = "PERMANENTLY_DELETE_USER"

\* DELETE /admin/gdpr/permanently-delete/:userId with bearer token t: requireAdmin,
\* validate(permanentDeletionSchema), handlePermanentDeletion, permanentlyDeleteUser
HandlePermanentDeletion(s, t, userId, confirmation) ==
    /\ CanStart(s)
    /\ nreq' = nreq + 1
    /\ Interrupt
    /\ LET r == [Idle EXCEPT !.op = "erase", !.tok = t, !.at = now,
                             !.user = [NoUser EXCEPT !.id = userId],
                             !.arg = confirmation]
       IN  \/ /\ authenticate(t) # "OK"
              /\ Done(s, r, authenticate(t))
              /\ UNCHANGED <<users, refreshTokens, sessions, magicTokens, resetTokens,
                             verifTokens, audit>>
           \/ /\ authenticate(t) = "OK" /\ ~ requireAdmin(t)
              /\ Done(s, r, "FORBIDDEN")
              /\ UNCHANGED <<users, refreshTokens, sessions, magicTokens, resetTokens,
                             verifTokens, audit>>
           \/ /\ authenticate(t) = "OK" /\ requireAdmin(t)
              /\ ~ permanentDeletionSchema(confirmation)
              /\ Done(s, r, "VALIDATION_ERROR")
              /\ UNCHANGED <<users, refreshTokens, sessions, magicTokens, resetTokens,
                             verifTokens, audit>>
           \/ /\ authenticate(t) = "OK" /\ requireAdmin(t)
              /\ permanentDeletionSchema(confirmation)
              /\ t.userId = userId
              /\ Done(s, r, "OWN_ACCOUNT")
              /\ UNCHANGED <<users, refreshTokens, sessions, magicTokens, resetTokens,
                             verifTokens, audit>>
           \/ /\ authenticate(t) = "OK" /\ requireAdmin(t)
              /\ permanentDeletionSchema(confirmation)
              /\ t.userId # userId
              /\ userId \notin DOMAIN users
              /\ Done(s, r, "ERROR")
              /\ UNCHANGED <<users, refreshTokens, sessions, magicTokens, resetTokens,
                             verifTokens, audit>>
           \/ /\ authenticate(t) = "OK" /\ requireAdmin(t)
              /\ permanentDeletionSchema(confirmation)
              /\ t.userId # userId
              /\ userId \in DOMAIN users
              /\ audit' = createAuditLog(audit, t.userId, "USER_PERMANENTLY_DELETED")
              /\ DeleteCascade(userId)
              /\ Done(s, [r EXCEPT !.aud = <<"USER_PERMANENTLY_DELETED">>], "OK")
    /\ UNCHANGED <<env, nextId, mailbox, accessIssued, refreshIssued, rotated, redeemed>>

\* prisma.user.deleteMany for the users in ids, with the cascade to their rows
DeleteManyCascade(ids) ==
    /\ users' = [i \in DOMAIN users \ ids |-> users[i]]
    /\ refreshTokens' = {x \in refreshTokens : x.userId \notin ids}
    /\ sessions' = {x \in sessions : x.userId \notin ids}
    /\ magicTokens' = {x \in magicTokens : x.userId \notin ids}
    /\ resetTokens' = {x \in resetTokens : x.userId \notin ids}
    /\ verifTokens' = {x \in verifTokens : x.userId \notin ids}

\* deleteAllUsers without the exclusion of the caller
deleteAllUsersUnfiltered(excludeUserId) == DOMAIN users

\* deleteAllUsers: the rows matched by where: {id: {not: excludeUserId}}
deleteAllUsers(excludeUserId) == {i \in DOMAIN users : i # excludeUserId}

\* deleteAllNonAdminUsers: the rows matched by where: {role: "USER"}
deleteAllNonAdminUsers == {i \in DOMAIN users : users[i].role = "USER"}

\* DELETE /admin/users/non-admins with bearer token t: requireAdmin,
\* deleteAllNonAdmins, deleteAllNonAdminUsers, logUsersBulkDeleted
DeleteAllNonAdmins(s, t) ==
    /\ CanStart(s)
    /\ nreq' = nreq + 1
    /\ Interrupt
    /\ LET r == [Idle EXCEPT !.op = "deleteNonAdmins", !.tok = t, !.at = now,
                             !.user = [NoUser EXCEPT !.id = t.userId]]
       IN  \/ /\ authenticate(t) # "OK"
              /\ Done(s, r, authenticate(t))
              /\ UNCHANGED <<users, refreshTokens, sessions, magicTokens, resetTokens,
                             verifTokens, audit>>
           \/ /\ authenticate(t) = "OK" /\ ~ requireAdmin(t)
              /\ Done(s, r, "FORBIDDEN")
              /\ UNCHANGED <<users, refreshTokens, sessions, magicTokens, resetTokens,
                             verifTokens, audit>>
           \/ /\ authenticate(t) = "OK" /\ requireAdmin(t)
              /\ DeleteManyCascade(deleteAllNonAdminUsers)
              /\ audit' = createAuditLog(audit, t.userId, "USERS_BULK_DELETED")
              /\ Done(s, [r EXCEPT !.aud = <<"USERS_BULK_DELETED">>], "OK")
    /\ UNCHANGED <<env, nextId, mailbox, accessIssued, refreshIssued, rotated, redeemed>>

\* DELETE /admin/users/all with bearer token t: requireAdmin,
\* deleteAllUsersHandler, deleteAllUsers, logUsersBulkDeleted
DeleteAllUsersHandler(s, t, confirmation) ==
    /\ CanStart(s)
    /\ nreq' = nreq + 1
    /\ Interrupt
    /\ LET r == [Idle EXCEPT !.op = "deleteAll", !.tok = t, !.at = now,
                             !.user = [NoUser EXCEPT !.id = t.userId],
                             !.arg = confirmation]
       IN  \/ /\ authenticate(t) # "OK"
              /\ Done(s, r, authenticate(t))
              /\ UNCHANGED <<users, refreshTokens, sessions, magicTokens, resetTokens,
                             verifTokens, audit>>
           \/ /\ authenticate(t) = "OK" /\ ~ requireAdmin(t)
              /\ Done(s, r, "FORBIDDEN")
              /\ UNCHANGED <<users, refreshTokens, sessions, magicTokens, resetTokens,
                             verifTokens, audit>>
           \/ /\ authenticate(t) = "OK" /\ requireAdmin(t)
              /\ confirmation # "DELETE_ALL_USERS"
              /\ Done(s, r, "CONFIRMATION_REQUIRED")
              /\ UNCHANGED <<users, refreshTokens, sessions, magicTokens, resetTokens,
                             verifTokens, audit>>
           \/ /\ authenticate(t) = "OK" /\ requireAdmin(t)
              /\ confirmation = "DELETE_ALL_USERS"
              /\ DeleteManyCascade(deleteAllUsers(t.userId))
              /\ audit' = createAuditLog(audit, t.userId, "USERS_BULK_DELETED")
              /\ Done(s, [r EXCEPT !.aud = <<"USERS_BULK_DELETED">>], "OK")
    /\ UNCHANGED <<env, nextId, mailbox, accessIssued, refreshIssued, rotated, redeemed>>

Deletion ==
    \/ \E s \in SlotIds, t \in accessIssued, userId \in UserIds : DeleteUser(s, t, userId)
    \/ \E s \in SlotIds, t \in accessIssued : DeleteAllNonAdmins(s, t)
    \/ \E s \in SlotIds, t \in accessIssued, confirmation \in {"DELETE_ALL_USERS", "yes"} :
          DeleteAllUsersHandler(s, t, confirmation)
    \/ \E s \in SlotIds, t \in accessIssued, userId \in UserIds,
          confirmation \in {"PERMANENTLY_DELETE_USER", "yes"} :
          HandlePermanentDeletion(s, t, userId, confirmation)

-----------------------------------------------------------------------------
(* Specifications *)

\* a registered, verified user who logged in during second 0
InitUser ==
    [id |-> 1, email |-> "a@x", password |-> "pw1", role |-> "USER",
     emailVerified |-> TRUE, failedLoginAttempts |-> 0,
     accountLockedUntil |-> NoTime, tokenVersion |-> 0]

\* the same user after three wrong-password logins that followed the login
InitUserFailing == [InitUser EXCEPT !.failedLoginAttempts = MAX_FAILED_ATTEMPTS - 2]

\* the same user locked by a fifth wrong-password login in second 0
InitUserLocked ==
    [InitUser EXCEPT !.failedLoginAttempts = MAX_FAILED_ATTEMPTS,
                     !.accountLockedUntil = LOCK_DURATION_MINUTES * 60]

\* an administrator who never logs in by password or magic link afterwards
InitAdmin ==
    [id |-> 2, email |-> "admin@x", password |-> "pw0", role |-> "ADMIN",
     emailVerified |-> TRUE, failedLoginAttempts |-> 0,
     accountLockedUntil |-> NoTime, tokenVersion |-> 0]

\* a user who registered and never verified the address
InitUnverified ==
    [id |-> 3, email |-> "b@x", password |-> "pw1", role |-> "USER",
     emailVerified |-> FALSE, failedLoginAttempts |-> 0,
     accountLockedUntil |-> NoTime, tokenVersion |-> 0]

InitAccess == Token("access", 1, "USER", 0, 0)

InitAdminAccess == Token("access", 2, "ADMIN", 0, 0)

InitRefresh == Token("refresh", 1, "USER", 0, 0)

InitMagic == Token("magic", 1, "", 0, 0)

\* The store one second after this history: a@x registered and verified
\* their address, logged in during second 0 and asked for a magic link
\* during second 0, which was mailed; admin@x registered as ADMIN, verified,
\* logged in during second 0 and logged out again.  us is the User table.
InitStoreWith(us, resets) ==
    /\ now = 1
    /\ ticks = 0
    /\ nreq = 0
    /\ users = us
    /\ nextId = Cardinality(DOMAIN us) + 1
    /\ refreshTokens = {[token |-> InitRefresh, userId |-> 1,
                         expiresAt |-> REFRESH_EXPIRES, used |-> FALSE]}
    /\ sessions = {[userId |-> 1, refreshToken |-> InitRefresh,
                    expiresAt |-> REFRESH_EXPIRES, isActive |-> TRUE],
                   [userId |-> 2, refreshToken |-> Token("refresh", 2, "ADMIN", 0, 0),
                    expiresAt |-> REFRESH_EXPIRES, isActive |-> FALSE]}
    /\ magicTokens = {[token |-> InitMagic, userId |-> 1,
                       expiresAt |-> MAGIC_LINK_TOKEN_EXPIRY, used |-> FALSE,
                       usedAt |-> NoTime]}
    /\ resetTokens = resets
    /\ verifTokens = {}
    /\ audit = {AuditRow(r.userId, "PASSWORD_RESET_REQUESTED") : r \in resets} \cup
               {AuditRow(id, "USER_REGISTER") : id \in DOMAIN us} \cup
               {AuditRow(1, "USER_LOGIN"), AuditRow(2, "USER_LOGIN"),
                AuditRow(1, "MAGIC_LINK_REQUESTED"), AuditRow(1, "MAGIC_LINK_SENT")} \cup
               {AuditRow(id, "LOGIN_FAILED") : id \in {i \in DOMAIN us :
                                                   us[i].failedLoginAttempts > 0}} \cup
               {AuditRow(id, "ACCOUNT_LOCKED") : id \in {i \in DOMAIN us :
                                                     us[i].accountLockedUntil # NoTime}}
    /\ reqs = [s \in SlotIds |-> Idle]
    /\ resp = NoResp
    /\ mailbox = {Mail(InitMagic, us[1].email)}
                 \cup {Mail(r.token, us[r.userId].email) : r \in resets}
    /\ accessIssued = {InitAccess, InitAdminAccess}
    /\ refreshIssued = {InitRefresh}
    /\ rotated = {}
    /\ redeemed = {}
    /\ streak = NoStreak

\* the store of that history, in which nobody has asked for a password reset
InitStore(us) == InitStoreWith(us, {})

InitResetToken == Token("reset", 1, "", 0, 0)

\* the PasswordResetToken row of a reset a@x asked for during second 0
InitResetRow ==
    [token |-> InitResetToken, userId |-> 1, expiresAt |-> RESET_TOKEN_EXPIRY,
     used |-> FALSE]

\* requests are handled one at a time; a@x has mistyped the password three times
Init ==
    /\ InitStore((1 :> InitUserFailing) @@ (2 :> InitAdmin))
    /\ cap = 1
    /\ budget = MaxRequests

\* requests are handled one at a time; b@x has registered and not verified
InitLogin ==
    /\ InitStore((1 :> InitUser) @@ (2 :> InitAdmin) @@ (3 :> InitUnverified))
    /\ cap = 1
    /\ budget = MaxLoginRequests

\* two requests may be in flight at once; a@x has mistyped the password three times
InitConc ==
    /\ InitStore((1 :> InitUserFailing) @@ (2 :> InitAdmin))
    /\ cap = 2
    /\ budget = MaxConcRequests

Next ==
    \/ Tick
    \/ Login
    \/ Refresh
    \/ MagicLink
    \/ PasswordReset
    \/ Registration
    \/ Account

\* two requests may be in flight at once; a@x has mistyped the password three
\* times and has been mailed a reset link
InitPasswordReset ==
    /\ InitStoreWith((1 :> InitUserFailing) @@ (2 :> InitAdmin), {InitResetRow})
    /\ cap = 2
    /\ budget = MaxResetRequests

NextLogin ==
    \/ Tick
    \/ Login
    \/ Refresh

NextConc ==
    \/ Tick
    \/ Login
    \/ Refresh
    \/ MagicLink

Spec == Init /\ [][Next]_vars

SpecLogin == InitLogin /\ [][NextLogin]_vars

\* requests are handled one at a time; a@x has failed three logins
InitAccount ==
    /\ InitStore((1 :> InitUserFailing) @@ (2 :> InitAdmin))
    /\ cap = 1
    /\ budget = MaxAccountRequests

NextAccount ==
    \/ Tick
    \/ Login
    \/ Refresh
    \/ SignOut
    \/ Deletion
    \/ Account

SpecAccount == InitAccount /\ [][NextAccount]_vars

\* requests are handled one at a time; only a@x and the administrator exist
InitMail ==
    /\ InitStore((1 :> InitUser) @@ (2 :> InitAdmin))
    /\ cap = 1
    /\ budget = MaxMailRequests

NextMail ==
    \/ Tick
    \/ Registration
    \/ Verification
    \/ MagicLink
    \/ PasswordReset

SpecMail == InitMail /\ [][NextMail]_vars

\* the addresses a client may type, one of them with an upper-case letter
MixedCaseEmails == {"a@x", "A@x", "b@x"}

\* String.prototype.toLowerCase on the addresses of MixedCaseEmails
toLowerCase(email) == IF email = "A@x" THEN "a@x" ELSE email

\* the requests that store an address: signUp behind validate(registerSchema),
\* which trims; the magic-link request behind validate(magicLinkRequestSchema),
\* which trims and lower-cases; update-email behind validate(updateEmailSchema),
\* which trims
EmailInput ==
    \/ \E s \in SlotIds, email \in MixedCaseEmails, password \in Passwords,
          mailOk \in BOOLEAN : RegisterUser(s, email, password, "USER", mailOk)
    \/ \E s \in SlotIds, email \in MixedCaseEmails, mailOk \in BOOLEAN :
          RequestMagicLink(s, toLowerCase(email), mailOk)
    \/ \E s \in SlotIds, t \in accessIssued, newEmail \in MixedCaseEmails,
          mailOk \in BOOLEAN : UpdateUserEmail(s, t, newEmail, mailOk)

\* requests are handled one at a time; only a@x and the administrator exist
InitCase ==
    /\ InitStore((1 :> InitUser) @@ (2 :> InitAdmin))
    /\ cap = 1
    /\ budget = MaxCaseRequests

NextCase ==
    \/ Tick
    \/ EmailInput

SpecCase == InitCase /\ [][NextCase]_vars

\* requests are handled one at a time; a@x is locked and still holds an access token
InitLocked ==
    /\ InitStore((1 :> InitUserLocked) @@ (2 :> InitAdmin))
    /\ cap = 1
    /\ budget = MaxLockedRequests

EmailUpdate ==
    \E s \in SlotIds, t \in accessIssued, newEmail \in Emails, mailOk \in BOOLEAN :
        UpdateUserEmail(s, t, newEmail, mailOk)

NextLocked ==
    \/ Tick
    \/ Login
    \/ EmailUpdate

SpecLocked == InitLocked /\ [][NextLocked]_vars

\* requests are handled one at a time; a@x holds an access token and changes
\* the address, which is then verified from the mail
InitVerify ==
    /\ InitStore((1 :> InitUser) @@ (2 :> InitAdmin))
    /\ cap = 1
    /\ budget = MaxVerifyRequests

EmailVerify ==
    \E s \in SlotIds, t \in Mailed("verification") : VerifyEmail(s, t)

NextVerify ==
    \/ Tick
    \/ EmailUpdate
    \/ EmailVerify

SpecVerify == InitVerify /\ [][NextVerify]_vars

\* requests are handled one at a time and a week may pass between two of them
InitExpiry ==
    /\ InitStore((1 :> InitUserFailing) @@ (2 :> InitAdmin))
    /\ cap = 1
    /\ budget = MaxExpiryRequests

NextExpiry ==
    \/ Tick
    \/ Sleep
    \/ Login
    \/ Refresh

SpecExpiry == InitExpiry /\ [][NextExpiry]_vars

\* requests are handled one at a time, a week may pass between two of them and
\* the cleanup script may run at any time; a@x has been mailed a magic link and
\* a reset link
InitSweep ==
    /\ InitStoreWith((1 :> InitUser) @@ (2 :> InitAdmin), {InitResetRow})
    /\ cap = 1
    /\ budget = MaxSweepRequests

NextSweep ==
    \/ Tick
    \/ Sleep
    \/ MagicLink
    \/ Verification
    \/ CleanupMagicLinkTokens

SpecSweep == InitSweep /\ [][NextSweep]_vars

\* requests are handled one at a time; a@x and the administrator hold the
\* tokens of their logins in second 0
InitRole ==
    /\ InitStore((1 :> InitUser) @@ (2 :> InitAdmin))
    /\ cap = 1
    /\ budget = MaxRoleRequests

RoleChange ==
    \E s \in SlotIds, t \in accessIssued, userId \in UserIds, role \in Roles :
        ChangeUserRole(s, t, userId, role)

NextRole ==
    \/ Tick
    \/ Refresh
    \/ RoleChange

SpecRole == InitRole /\ [][NextRole]_vars

NextPasswordReset ==
    \/ Tick
    \/ Login
    \/ Refresh
    \/ MagicLink
    \/ PasswordReset

SpecPasswordReset == InitPasswordReset /\ [][NextPasswordReset]_vars

SpecConc == InitConc /\ [][NextConc]_vars

-----------------------------------------------------------------------------
(* Properties *)

Has(seq, x) == \E i \in DOMAIN seq : seq[i] = x

LockSeconds == LOCK_DURATION_MINUTES * 60

\* C1: once resetPassword has succeeded for a user, a token minted before the
\* reset (its tokenVersion claim is below the stored tokenVersion) is rejected
\* by the authentication middleware with TOKEN_INVALIDATED.
C1_StaleTokenInvalidated ==
    (/\ resp.op = "profile"
     /\ resp.uid \in DOMAIN users
     /\ resp.tok.tokenVersion < users[resp.uid].tokenVersion)
        => resp.outcome = "TOKEN_INVALIDATED"

\* C2: after refresh(t) has succeeded, every later refresh(t) fails with
\* REFRESH_NOT_FOUND.
C2_ReplayedRefreshNotFound ==
    (resp.op = "refresh" /\ resp.replay) => resp.outcome = "REFRESH_NOT_FOUND"

\* C3: after a successful refresh that returned t', exactly one active session
\* carries t' as its refresh token.
C3_OneActiveSessionAfterRefresh ==
    (resp.op = "refresh" /\ resp.outcome = "OK")
        => Cardinality({x \in sessions : x.isActive /\ x.refreshToken = resp.refresh}) = 1

\* C4 as stated: after one successful redeem(m), every subsequent redeem(m) is
\* rejected with MAGIC_LINK_USED.
C4_ReplayAlwaysReportedUsed ==
    (resp.op = "redeem" /\ resp.replay) => resp.outcome = "MAGIC_LINK_USED"

\* C4 amended: redeem(m) marks m's row used before it mints anything, and no
\* step clears the mark: a used row stays used until it is deleted.  A
\* redeem(m) goes past its checks only when it found the row unused; one that
\* finds the used row is rejected with MAGIC_LINK_USED, also within the TTL,
\* and one that finds no row is rejected with MAGIC_LINK_INVALID; neither
\* creates a session or a refresh token.
C4_UsedLinkStaysDead ==
    [][/\ \A row \in magicTokens :
             row.used => \/ row \in magicTokens'
                         \/ ~ \E x \in magicTokens' : x.token = row.token
       /\ \A s \in SlotIds :
             (/\ reqs[s].op = "redeem" /\ reqs[s].pc = "mark"
              /\ reqs'[s].op = "redeem" /\ reqs'[s].pc = "save")
                 => \E x \in magicTokens' : x.token = reqs[s].tok /\ x.used
       /\ \A s \in SlotIds :
             (reqs[s].op = "idle" /\ reqs'[s].op = "redeem")
                 => /\ findMagicLinkToken(reqs'[s].tok) # NoRow
                    /\ ~ findMagicLinkToken(reqs'[s].tok).used
       /\ (/\ resp'.op = "redeem"
           /\ nreq' = nreq + 1
           /\ \/ findMagicLinkToken(resp'.tok) = NoRow
              \/ findMagicLinkToken(resp'.tok).used)
              => /\ resp'.outcome = IF findMagicLinkToken(resp'.tok) = NoRow
                                    THEN "MAGIC_LINK_INVALID" ELSE "MAGIC_LINK_USED"
                 /\ sessions' = sessions
                 /\ refreshTokens' = refreshTokens
                 /\ refreshIssued' = refreshIssued
                 /\ accessIssued' = accessIssued]_vars

\* a redeem of an already redeemed link, inside its TTL, was answered MAGIC_LINK_USED
C4_Witness ==
    /\ resp.op = "redeem" /\ resp.replay
    /\ resp.outcome = "MAGIC_LINK_USED"
    /\ now <= resp.tok.iat + MAGIC_LINK_TOKEN_EXPIRY

\* C5 as stated: from failedLoginAttempts = 0, five consecutive wrong-password
\* logins leave any user locked for at least 30 minutes, and the sixth returns
\* ACCOUNT_LOCKED without the bcrypt comparison.
C5_LockoutForAnyUser ==
    /\ (resp.op = "login" /\ resp.streak = 5)
          => /\ IsLocked(users[resp.uid])
             /\ users[resp.uid].accountLockedUntil >= now + LockSeconds
    /\ (resp.op = "login" /\ resp.streak = 6)
          => resp.outcome = "ACCOUNT_LOCKED" /\ ~ resp.bcrypt

\* C5 amended: for a user whose e-mail address is verified and whose
\* failedLoginAttempts is 0, five consecutive wrong-password logins leave the
\* user locked until 30 minutes after the fifth, and a sixth login made less
\* than 30 minutes after the fifth returns ACCOUNT_LOCKED without the bcrypt
\* comparison.
C5_LockoutThreshold ==
    /\ (resp.op = "login" /\ resp.streak = 5 /\ users[resp.uid].emailVerified)
          => /\ resp.outcome = "ACCOUNT_LOCKED"
             /\ users[resp.uid].failedLoginAttempts = MAX_FAILED_ATTEMPTS
             /\ users[resp.uid].accountLockedUntil = now + LockSeconds
    /\ (/\ resp.op = "login" /\ resp.streak = 6 /\ users[resp.uid].emailVerified
        /\ resp.gap < LockSeconds)
          => resp.outcome = "ACCOUNT_LOCKED" /\ ~ resp.bcrypt

\* the sixth wrong-password login in a row, inside the lock window, was turned away
C5_Witness ==
    /\ resp.op = "login" /\ resp.streak = 6 /\ users[resp.uid].emailVerified
    /\ resp.gap < LockSeconds
    /\ resp.outcome = "ACCOUNT_LOCKED" /\ ~ resp.bcrypt

\* C6: a login with correct credentials made after accountLockedUntil has
\* passed succeeds and leaves failedLoginAttempts = 0 and the lock cleared.
C6_AutoRelease ==
    (resp.op = "login" /\ resp.pwOk /\ Has(resp.aud, "ACCOUNT_UNLOCKED"))
        => /\ resp.outcome = "OK"
           /\ users[resp.uid].failedLoginAttempts = 0
           /\ users[resp.uid].accountLockedUntil = NoTime

\* C7: no step of any operation decreases a user's tokenVersion.
C7_TokenVersionMonotone ==
    [][\A id \in DOMAIN users :
          id \in DOMAIN users' => users'[id].tokenVersion >= users[id].tokenVersion]_vars

\* a password reset has completed and raised the user's tokenVersion
C7_Witness ==
    /\ resp.op = "reset" /\ resp.outcome = "OK"
    /\ users[resp.uid].tokenVersion > 0

\* C8: concurrent wrong-password logins behave as if serialized, so that no
\* failed attempt is lost: a wrong-password login that finds the counter
\* raised by another one since it read the user leaves the counter one above
\* the value it found.
C8_NoLostAttempt ==
    (/\ resp.op = "login" /\ resp.bcrypt /\ ~ resp.pwOk
     /\ resp.outcome \in {"INVALID_PASSWORD", "ACCOUNT_LOCKED"}
     /\ ~ Has(resp.aud, "ACCOUNT_UNLOCKED")
     /\ resp.prevFailed >= resp.seenFailed)
        => users[resp.uid].failedLoginAttempts = resp.prevFailed + 1

\* C9: of the refresh calls that were handed the same valid token t, at most
\* one succeeds.
C9_OneRefreshWins ==
    (resp.op = "refresh" /\ resp.outcome = "OK" /\ ~ resp.replay) => ~ resp.dup

\* C10: of the redeem calls that were handed the same magic link, at most one
\* returns tokens.
C10_OneRedeemWins ==
    (resp.op = "redeem" /\ resp.outcome = "OK" /\ ~ resp.replay) => ~ resp.dup

\* C11: of the resetPassword calls that present the same reset token, in any
\* interleaving, at most one succeeds, and the user's tokenVersion ends exactly
\* one above the value it had when the token was presented.
C11_OneResetWins ==
    (/\ resp.op = "reset" /\ resp.outcome = "OK"
     /\ \A x \in resetTokens : x.userId = resp.uid => x.token = resp.tok)
        => /\ ~ resp.dup
           /\ users[resp.uid].tokenVersion = resp.seenVersion + 1

\* C12: once resetPassword has returned success for a user and no other reset
\* is in progress, the user has no RefreshToken row and no active Session
\* minted from the user row as it was before the reset (carrying a tokenVersion
\* below the stored one), whatever login, refresh or redeem ran alongside.
C12_NoSurvivorsOfReset ==
    \A u \in DOMAIN users :
        (/\ AuditRow(u, "PASSWORD_RESET_COMPLETED") \in audit
         /\ \A s \in SlotIds : reqs[s].op # "reset")
            => /\ \A r \in refreshTokens :
                     r.userId = u => r.token.tokenVersion >= users[u].tokenVersion
               /\ \A x \in sessions :
                     (x.userId = u /\ x.isActive)
                         => x.refreshToken.tokenVersion >= users[u].tokenVersion

\* C14: refresh succeeds only for a refresh token whose tokenVersion claim
\* equals the tokenVersion stored for the user; a token carrying an older
\* tokenVersion is rejected.
C14_RefreshChecksTokenVersion ==
    (resp.op = "refresh" /\ resp.outcome = "OK")
        => resp.tok.tokenVersion = resp.seenVersion

\* C13: a request whose access token verifies but whose user row no longer
\* exists is answered USER_NOT_FOUND and reaches no handler.
C13_DeletedUserRejected ==
    (/\ resp.tok.kind = "access"
     /\ authenticate(resp.tok) = "OK"
     /\ resp.tok.userId \notin DOMAIN users)
        => resp.outcome = "USER_NOT_FOUND"

\* C15: a refresh token whose Session row is inactive cannot be used to
\* refresh successfully.
C15_InactiveSessionCannotRefresh ==
    (resp.op = "refresh" /\ resp.outcome = "OK") => ~ resp.inactive

C17_UniformMagicLinkMessage ==
    (resp.op = "magic" /\ resp.outcome = "OK") => resp.message = MagicLinkMessage(FALSE)

\* C18: every successful login, register, logout, refresh, role change,
\* delete, magic-link redeem, password reset, email verify and session revoke
\* writes exactly one AuditLog row.
C18_OneAuditRowPerSuccess ==
    (/\ resp.outcome = "OK"
     /\ resp.op \in {"login", "register", "logout", "refresh", "role", "delete", "erase",
                     "redeem", "reset", "verify", "logoutAll"})
        => Len(resp.aud) = 1

\* C19: logout with no token and logout with a token that matches no
\* RefreshToken row succeed and leave every RefreshToken and Session row
\* unchanged; logout(t) repeated right after a successful logout(t) succeeds
\* with no further change.
C19_IdempotentLogout ==
    [][(/\ resp'.op = "logout"
        /\ \/ resp'.tok = NoTok
           \/ ~ \E r \in refreshTokens : r.token = resp'.tok
           \/ resp'.replay)
          => /\ resp'.outcome = "OK"
             /\ refreshTokens' = refreshTokens
             /\ sessions' = sessions]_vars

\* logout(t) answered with success right after a successful logout(t) that
\* removed the RefreshToken row of t and deactivated its session
C19_Witness ==
    /\ resp.op = "logout" /\ resp.replay /\ resp.outcome = "OK"
    /\ resp.tok = InitRefresh
    /\ ~ \E r \in refreshTokens : r.token = InitRefresh
    /\ \E x \in sessions : x.refreshToken = InitRefresh /\ ~ x.isActive

C21_AnonymizeRequestSucceeds ==
    (/\ resp.op = "anonymize"
     /\ authenticate(resp.tok) = "OK"
     /\ resp.arg = "ANONYMIZE_MY_DATA"
     /\ resp.tok.userId \in DOMAIN users)
        => /\ resp.outcome = "OK"
           /\ users[resp.tok.userId].email = AnonymizedEmails[resp.tok.userId]

\* C22: a login with a wrong password that arrives after accountLockedUntil
\* has passed clears the lock and resets the counter before the comparison: it
\* is answered INVALID_PASSWORD, leaves failedLoginAttempts = 1 and leaves the
\* account unlocked.
C22_WrongPasswordAfterExpiredLock ==
    (/\ resp.op = "login"
     /\ resp.bcrypt /\ ~ resp.pwOk
     /\ Len(resp.aud) > 0 /\ resp.aud[1] = "ACCOUNT_UNLOCKED"
     /\ resp.uid \in DOMAIN users)
        => /\ resp.outcome = "INVALID_PASSWORD"
           /\ users[resp.uid].failedLoginAttempts = 1
           /\ users[resp.uid].accountLockedUntil = NoTime

\* C23 as stated, for a user with a verified address: from failedLoginAttempts
\* = 0, each of five consecutive wrong-password logins is answered 401, and a
\* sixth login with the correct password is answered 423 with lockedUntil about
\* 30 minutes ahead.
C23_FiveTimes401Then423 ==
    /\ (resp.op = "login" /\ resp.streak \in 1..5 /\ users[resp.uid].emailVerified)
          => LoginStatus(resp) = 401
    /\ (resp.op = "login" /\ resp.pwOk /\ resp.after = 5 /\ users[resp.uid].emailVerified)
          => /\ LoginStatus(resp) = 423
             /\ resp.lockedUntil >= now + LockSeconds - 1

\* C23 amended: for a user with a verified address and failedLoginAttempts = 0,
\* the first four consecutive wrong-password logins are answered 401, the fifth
\* is answered 423 with lockedUntil 30 minutes ahead, and a sixth login with
\* the correct password made less than 30 minutes after the fifth is answered
\* 423 with the lockedUntil of the fifth and receives no tokens.
C23_LockoutStatuses ==
    /\ (resp.op = "login" /\ resp.streak \in 1..4 /\ users[resp.uid].emailVerified)
          => LoginStatus(resp) = 401
    /\ (resp.op = "login" /\ resp.streak = 5 /\ users[resp.uid].emailVerified)
          => LoginStatus(resp) = 423 /\ resp.lockedUntil = now + LockSeconds
    /\ (/\ resp.op = "login" /\ resp.pwOk /\ resp.after = 5
        /\ resp.gap < LockSeconds /\ users[resp.uid].emailVerified)
          => /\ LoginStatus(resp) = 423
             /\ resp.lockedUntil = now - resp.gap + LockSeconds
             /\ resp.access = NoTok /\ resp.refresh = NoTok

\* the correct password right after five wrong ones was answered 423
C23_Witness ==
    /\ resp.op = "login" /\ resp.pwOk /\ resp.after = 5 /\ resp.gap < LockSeconds
    /\ LoginStatus(resp) = 423
    /\ users[resp.uid].failedLoginAttempts = MAX_FAILED_ATTEMPTS

\* C24: a user's emailVerified changes from true to false only in a step that
\* also changes that user's email address to a different value.
C24_UnverifiedOnlyOnEmailChange ==
    [][\A id \in DOMAIN users :
          (/\ id \in DOMAIN users'
           /\ users[id].emailVerified
           /\ ~ users'[id].emailVerified)
              => users'[id].email # users[id].email]_vars

\* C25: in every state each user has at most one unused verification token, at
\* most one unused password-reset token and at most one unused magic-link token.
C25_OneUnusedTokenPerKind ==
    \A u \in UserIds :
        /\ Cardinality({x \in verifTokens : x.userId = u /\ ~ x.used}) <= 1
        /\ Cardinality({x \in resetTokens : x.userId = u /\ ~ x.used}) <= 1
        /\ Cardinality({x \in magicTokens : x.userId = u /\ ~ x.used}) <= 1

\* C26: updateEmail emits EMAIL_UPDATED only when the verification mail for
\* the new address was dispatched; when the dispatch fails it emits
\* EMAIL_UPDATE_FAILED instead, returns the failure and keeps the new email
\* with emailVerified = false.
C26_EmailUpdateAudit ==
    /\ (resp.op = "email" /\ Has(resp.aud, "EMAIL_UPDATED")) => resp.outcome = "OK"
    /\ (resp.op = "email" /\ resp.outcome = "ERROR")
          => /\ Has(resp.aud, "EMAIL_UPDATE_FAILED")
             /\ users[resp.uid].email = resp.email
             /\ ~ users[resp.uid].emailVerified

\* C27: revoke(sessionId, userId) for a session that belongs to another user
\* fails with SESSION_NOT_FOUND, exactly as for a session id that does not
\* exist, and leaves that session and its RefreshToken row as they were.
C27_ForeignSessionNotFound ==
    [][(/\ resp'.op = "revoke"
        /\ authenticate(resp'.tok) = "OK"
        /\ ~ \E x \in sessions :
                x.refreshToken = resp'.session /\ x.userId = resp'.tok.userId)
          => /\ resp'.outcome = "SESSION_NOT_FOUND"
             /\ sessions' = sessions
             /\ refreshTokens' = refreshTokens
             /\ audit' = audit]_vars

\* the revoke of another user's active session was answered SESSION_NOT_FOUND
\* and the session and its RefreshToken row are in place
C27_Witness ==
    /\ resp.op = "revoke" /\ resp.outcome = "SESSION_NOT_FOUND"
    /\ \E x \in sessions :
          /\ x.refreshToken = resp.session /\ x.userId # resp.tok.userId
          /\ x.isActive
          /\ \E r \in refreshTokens : r.token = x.refreshToken

C29_EmailsLowercase ==
    /\ \A i \in DOMAIN users : users[i].email = toLowerCase(users[i].email)
    /\ \A i, j \in DOMAIN users :
          i # j => toLowerCase(users[i].email) # toLowerCase(users[j].email)

\* C30 as stated: a login call that finds accountLockedUntil > now, including
\* one with the correct password, returns ACCOUNT_LOCKED with lockedUntil,
\* creates no RefreshToken or Session row, and leaves failedLoginAttempts and
\* accountLockedUntil unchanged.
C30_LockedLoginRejected ==
    [][(/\ resp'.op = "login"
        /\ resp'.uid \in DOMAIN users
        /\ resp'.seenLockedUntil # NoTime
        /\ resp'.seenLockedUntil > resp'.at)
          => /\ resp'.outcome = "ACCOUNT_LOCKED"
             /\ resp'.lockedUntil = resp'.seenLockedUntil
             /\ resp'.access = NoTok /\ resp'.refresh = NoTok
             /\ refreshTokens' = refreshTokens
             /\ sessions' = sessions
             /\ users'[resp'.uid].failedLoginAttempts = resp'.seenFailed
             /\ users'[resp'.uid].accountLockedUntil = resp'.seenLockedUntil]_vars

\* C30 amended: a login call for a user whose address is verified that finds
\* accountLockedUntil > now, including one with the correct password, returns
\* ACCOUNT_LOCKED with lockedUntil without comparing the password, creates no
\* RefreshToken or Session row, and leaves failedLoginAttempts and
\* accountLockedUntil unchanged; for an unverified address the call returns
\* EMAIL_NOT_VERIFIED with the same frame.
C30_LockedVerifiedLoginRejected ==
    [][(/\ resp'.op = "login"
        /\ resp'.uid \in DOMAIN users
        /\ resp'.seenLockedUntil # NoTime
        /\ resp'.seenLockedUntil > resp'.at)
          => /\ resp'.outcome = IF users[resp'.uid].emailVerified
                                THEN "ACCOUNT_LOCKED" ELSE "EMAIL_NOT_VERIFIED"
             /\ users[resp'.uid].emailVerified
                   => resp'.lockedUntil = resp'.seenLockedUntil
             /\ ~ resp'.bcrypt
             /\ resp'.access = NoTok /\ resp'.refresh = NoTok
             /\ refreshTokens' = refreshTokens
             /\ sessions' = sessions
             /\ users'[resp'.uid].failedLoginAttempts = resp'.seenFailed
             /\ users'[resp'.uid].accountLockedUntil = resp'.seenLockedUntil]_vars

\* a login with the correct password for the locked a@x was answered ACCOUNT_LOCKED
C30_Witness ==
    /\ resp.op = "login" /\ resp.pwOk /\ resp.outcome = "ACCOUNT_LOCKED"
    /\ resp.lockedUntil > now
    /\ users[resp.uid].emailVerified
    /\ users[resp.uid].accountLockedUntil = resp.lockedUntil

\* C31 as stated: a redeem for a user whose accountLockedUntil lies after the
\* time of the call is answered ACCOUNT_LOCKED, creates no RefreshToken or
\* Session row, leaves the magic-link row unused and emailVerified unchanged,
\* and writes a MAGIC_LINK_FAILED audit row.
C31_LockedRedeemRefused ==
    [][(/\ resp'.op = "redeem"
        /\ resp'.uid \in DOMAIN users
        /\ resp'.seenLockedUntil # NoTime
        /\ resp'.seenLockedUntil > resp'.at)
          => /\ resp'.outcome = "ACCOUNT_LOCKED"
             /\ resp'.access = NoTok /\ resp'.refresh = NoTok
             /\ refreshTokens' = refreshTokens
             /\ sessions' = sessions
             /\ \E m \in magicTokens' : m.token = resp'.tok /\ ~ m.used
             /\ users'[resp'.uid].emailVerified = resp'.seenVerified
             /\ Has(resp'.aud, "MAGIC_LINK_FAILED")
             /\ AuditRow(resp'.uid, "MAGIC_LINK_FAILED") \in audit']_vars

\* C31: a redeem for a user whose accountLockedUntil lies after the time of
\* the call is refused, creates no RefreshToken or Session row, does not mark
\* the magic-link row used and leaves emailVerified unchanged; if the row is
\* unused and unexpired the answer is ACCOUNT_LOCKED, the row stays and a
\* MAGIC_LINK_FAILED audit row is written, and if the row is expired it is
\* deleted and the answer is MAGIC_LINK_EXPIRED with no audit row.
C31_LockedRedeemRefusedInOrder ==
    [][(/\ resp'.op = "redeem"
        /\ resp'.uid \in DOMAIN users
        /\ resp'.seenLockedUntil # NoTime
        /\ resp'.seenLockedUntil > resp'.at)
          => /\ resp'.outcome \in {"ACCOUNT_LOCKED", "MAGIC_LINK_EXPIRED",
                                   "MAGIC_LINK_USED"}
             /\ resp'.access = NoTok /\ resp'.refresh = NoTok
             /\ refreshTokens' = refreshTokens
             /\ sessions' = sessions
             /\ users' = users
             /\ users'[resp'.uid].emailVerified = resp'.seenVerified
             /\ \A m \in magicTokens' : m.token = resp'.tok => m \in magicTokens
             /\ resp'.outcome = "ACCOUNT_LOCKED"
                   => /\ \E m \in magicTokens' : m.token = resp'.tok /\ ~ m.used
                      /\ Has(resp'.aud, "MAGIC_LINK_FAILED")
                      /\ AuditRow(resp'.uid, "MAGIC_LINK_FAILED") \in audit'
             /\ resp'.outcome = "MAGIC_LINK_EXPIRED"
                   => /\ ~ \E m \in magicTokens' : m.token = resp'.tok
                      /\ audit' = audit
             /\ resp'.outcome = "MAGIC_LINK_USED"
                   => /\ magicTokens' = magicTokens
                      /\ audit' = audit]_vars

\* a locked user's redeem of an unused, unexpired link has been refused
C31_Witness ==
    /\ resp.op = "redeem" /\ resp.outcome = "ACCOUNT_LOCKED"
    /\ resp.uid \in DOMAIN users
    /\ users[resp.uid].accountLockedUntil > now
    /\ \E m \in magicTokens : m.token = resp.tok /\ ~ m.used /\ ~ (m.expiresAt < now)
    /\ AuditRow(resp.uid, "MAGIC_LINK_FAILED") \in audit

\* C32: a verification token verifies an account at most once: when
\* verifyEmail(token) succeeds the user has emailVerified = true and the token
\* row is gone, and every later verifyEmail of the same token fails and changes
\* no user.
C32_VerifiesAtMostOnce ==
    [][resp'.op = "verify"
          => /\ resp'.outcome = "OK"
                   => /\ users'[resp'.uid].emailVerified
                      /\ ~ \E v \in verifTokens' : v.token = resp'.tok
             /\ resp'.replay => resp'.outcome # "OK" /\ users' = users]_vars

\* C33: a refresh with a refresh token whose row has expiresAt before the time
\* of the call is answered REFRESH_EXPIRED, after it no RefreshToken row holds
\* that token and no Session of that token is active, and it mints no access
\* or refresh token and saves no new row.
C33_ExpiredRefreshRejected ==
    [][(/\ resp'.op = "refresh"
        /\ resp'.expiresAt # NoTime
        /\ resp'.expiresAt < resp'.at)
          => /\ resp'.outcome = "REFRESH_EXPIRED"
             /\ ~ \E x \in refreshTokens' : x.token = resp'.tok
             /\ ~ \E x \in sessions' : x.refreshToken = resp'.tok /\ x.isActive
             /\ resp'.access = NoTok /\ resp'.refresh = NoTok
             /\ refreshTokens' \subseteq refreshTokens
             /\ accessIssued' = accessIssued
             /\ refreshIssued' = refreshIssued]_vars

\* an expired refresh token whose session was active has been refused
C33_Witness ==
    /\ resp.op = "refresh" /\ resp.outcome = "REFRESH_EXPIRED"
    /\ resp.expiresAt < now
    /\ resp.tok \in refreshIssued
    /\ ~ \E x \in refreshTokens : x.token = resp.tok
    /\ \E x \in sessions : x.refreshToken = resp.tok /\ ~ x.isActive

\* C34: after a sweep has run no verification, password-reset or magic-link
\* row with expiresAt < now remains, and the sweep has deleted no row that was
\* both unexpired and unused.
C34_SweepRemovesExpiredOnly ==
    [][resp'.op = "sweep"
          => /\ \A x \in magicTokens' \cup resetTokens' \cup verifTokens' :
                    ~ (x.expiresAt < now')
             /\ \A x \in magicTokens : ~ (x.expiresAt < now) /\ ~ x.used
                                          => x \in magicTokens'
             /\ \A x \in resetTokens : ~ (x.expiresAt < now) /\ ~ x.used
                                          => x \in resetTokens'
             /\ \A x \in verifTokens : ~ (x.expiresAt < now) /\ ~ x.used
                                          => x \in verifTokens']_vars

\* C35: the access and refresh tokens returned by a successful refresh carry
\* the role and tokenVersion stored in the user's row at the time of that
\* refresh, whatever the presented token carried.
C35_RefreshCarriesStoredClaims ==
    [][(resp'.op = "refresh" /\ resp'.outcome = "OK")
          => /\ resp'.uid \in DOMAIN users'
             /\ resp'.access.role = users'[resp'.uid].role
             /\ resp'.refresh.role = users'[resp'.uid].role
             /\ resp'.access.tokenVersion = users'[resp'.uid].tokenVersion
             /\ resp'.refresh.tokenVersion = users'[resp'.uid].tokenVersion
             /\ resp'.access.userId = resp'.uid
             /\ resp'.refresh.userId = resp'.uid]_vars

\* the first refresh after a role change has returned tokens with the new role
C35_Witness ==
    /\ resp.op = "refresh" /\ resp.outcome = "OK"
    /\ AuditRow(resp.uid, "ROLE_CHANGED") \in audit
    /\ resp.tok.role # users[resp.uid].role
    /\ resp.access.role = users[resp.uid].role
    /\ resp.refresh.role = users[resp.uid].role

\* C36: a success audit row (USER_LOGIN, TOKEN_REFRESHED, MAGIC_LINK_LOGIN,
\* EMAIL_UPDATED) is written only by an operation that returns success: a
\* request that is answered with a failure has written no such row.
C36_SuccessRowOnlyOnSuccess ==
    [][(resp'.op # "none" /\ resp'.outcome # "OK")
          => \A i \in DOMAIN resp'.aud :
                resp'.aud[i] \notin {"USER_LOGIN", "TOKEN_REFRESHED",
                                     "MAGIC_LINK_LOGIN", "EMAIL_UPDATED"}]_vars

\* C37: the refresh token returned by a successful refresh(t) differs from t,
\* also when the refresh happens in the clock second in which t was minted for
\* the same user, role and tokenVersion.
C37_RotatedTokenIsFresh ==
    [][(resp'.op = "refresh" /\ resp'.outcome = "OK")
          => resp'.refresh # resp'.tok]_vars

\* C38: an admin-only operation is executed only for a caller whose stored
\* role is ADMIN when the request is handled; after a role change has demoted
\* a user to USER no role change requested by that user is carried out.
C38_AdminOnlyForStoredAdmins ==
    [][(resp'.op = "role" /\ resp'.outcome = "OK")
          => /\ resp'.tok.userId \in DOMAIN users
             /\ users[resp'.tok.userId].role = "ADMIN"]_vars

\* C39: emailVerified becomes true only through the redemption of a
\* verification or magic-link token that was mailed to the address the user
\* has at that moment; a token mailed to an earlier address does not verify a
\* later one.
C39_VerifiedByMailToCurrentAddress ==
    [][\A u \in DOMAIN users \cap DOMAIN users' :
          (~ users[u].emailVerified /\ users'[u].emailVerified)
             => \E l \in mailbox :
                   /\ l.to = users'[u].email
                   /\ l.token.userId = u
                   /\ \/ resp'.op = "verify" /\ resp'.tok = l.token
                      \/ \E s \in SlotIds : /\ reqs[s].op = "redeem"
                                            /\ reqs[s].tok = l.token]_vars

\* C40: no access or refresh token is minted for a user whose emailVerified is
\* false when the tokens are minted, neither by login nor by refresh.
C40_NoTokensForUnverified ==
    [][(resp'.op \in {"login", "refresh"} /\ resp'.outcome = "OK")
          => /\ resp'.uid \in DOMAIN users'
             /\ users'[resp'.uid].emailVerified]_vars

====
